---- MODULE Spec2Model ----
(***************************************************************************)
(* Segmented content acquisition pipeline of src/main.py:                  *)
(*   load_segments_from_csv  - time ranges to 360-second windows           *)
(*   fetch_and_save_danmaku  - per-segment overlay-comment retrieval       *)
(*   fetch_comments          - paginated comment crawl with de-duplication *)
(*   main                    - the stages that call them in sequence       *)
(* Every provider call is one step: the request and its response.          *)
(***************************************************************************)
EXTENDS Integers, Sequences, FiniteSets, TLC

\* ------------------------------------------------------------------ bounds
MaxMin == 6          \* largest minute field of a time string
MaxRows == 2         \* rows of the CSV file
MaxPageNum == 2      \* largest number in a page-number cell
MaxId == 3           \* comment ids are 1..MaxId
MaxSub == 1          \* nested replies carried by one top-level reply
PageSize == 3        \* top-level replies carried by one page
MaxCount == 3        \* largest total count a cursor reports
MaxPages == 2        \* sub-videos in the page table of the content
MaxWin == 1          \* largest window index of a segment given to the fetcher
MaxTotal == 2        \* largest window count the provider reports for a track
MaxTopN == 3         \* the largest top_n asked for
MaxStream == 6       \* tokens counted for one percentage table
MaxIdent == 2        \* program identifiers given
MaxTopTexts == 2     \* texts handed to get_top_n_words
MaxTopTok == 2       \* tokens in one of them
MaxTok == 3          \* tokens in one segmented text
MaxTexts == 3        \* texts given to the sentiment classification
MaxDm == 2           \* overlay comments returned by one retrieval

\* --------------------------------------------------------------- constants
PosThreshold == 65   \* line 450, in hundredths
NegThreshold == 35   \* line 452, in hundredths
WindowSize == 360    \* seconds per provider window
None == -1           \* Python None where the other values are naturals

SegNames == {"s1", "s2"}
SecVals == {0, 59}
MinVals == {0, MaxMin - 1, MaxMin}

\* ------------------------------------------------------------ dict helpers
\* A Python dict with string keys, kept as the sequence of its entries in
\* insertion order; every entry carries its key in the field "name".
Keys(d) == {d[i].name : i \in 1..Len(d)}

HasKey(d, k) == \E i \in 1..Len(d) : d[i].name = k

Get(d, k) == d[CHOOSE i \in 1..Len(d) : d[i].name = k]

\* d[k] = e : a new key is appended, an existing key keeps its position.
Put(d, e) ==
    IF HasKey(d, e.name)
    THEN [i \in 1..Len(d) |-> IF d[i].name = e.name THEN e ELSE d[i]]
    ELSE Append(d, e)

\* ------------------------------------------------- load_segments_from_csv
\* A time string matched by the pattern \d{1,2}:\d{2}(?::\d{2})? is the
\* sequence of its integer fields.
TimeStrs ==
    {<<m, s>> : m \in MinVals, s \in SecVals}
    \cup {<<0, 0, 0>>, <<0, MaxMin, 0>>, <<1, 0, 0>>}

\* time_to_seconds on a string; None stands for ValueError.
time_to_seconds(parts) ==
    IF Len(parts) = 3 THEN parts[1] * 3600 + parts[2] * 60 + parts[3]
    ELSE IF Len(parts) = 2 THEN parts[1] * 60 + parts[2]
    ELSE None

\* The page-number cell of a row: NaN/absent, a number, a text that float()
\* rejects, or "inf", which float() accepts and int() rejects.
PCells ==
    {[kind |-> "nan", val |-> 0], [kind |-> "text", val |-> 0],
     [kind |-> "inf", val |-> 0]}
    \cup {[kind |-> "num", val |-> v] : v \in 0..MaxPageNum}

\* The time ranges 0:00-0:01, 5:59-6:01 and 12:00-12:00.
ExampleTimelines ==
    {[match |-> TRUE, start |-> <<0, 0>>, end |-> <<0, 1>>],
     [match |-> TRUE, start |-> <<5, 59>>, end |-> <<6, 1>>],
     [match |-> TRUE, start |-> <<12, 0>>, end |-> <<12, 0>>]}

\* The timeline cell: whether the pattern matches, and the two groups.
Timelines ==
    {[match |-> FALSE, start |-> <<0, 0>>, end |-> <<0, 0>>]}
    \cup {[match |-> TRUE, start |-> a, end |-> b] : a \in TimeStrs, b \in TimeStrs}
    \cup ExampleTimelines

Rows == [name : SegNames, pcell : PCells, timeline : Timelines]

\* What int(float(str(cell))) does: "ok", "ValueError" or "OverflowError".
PageCellOutcome(c) ==
    CASE c.kind = "text" -> "ValueError"
      [] c.kind = "inf" -> "OverflowError"
      [] OTHER -> "ok"

\* Lines 183-192: the 0-based page index of a row.
PageIndexOf(c) ==
    IF c.kind = "num" /\ c.val >= 1 THEN c.val - 1 ELSE 0

MutFromSeg(start_seconds) == (start_seconds + WindowSize - 1) \div WindowSize

\* Line 213.
FromSeg(start_seconds) == start_seconds \div WindowSize

MutToSeg(end_seconds) == end_seconds \div WindowSize

\* Line 214.
ToSeg(end_seconds) == (end_seconds - 1) \div WindowSize

MutRowAccepted(r) ==
    /\ r.timeline.match
    /\ time_to_seconds(r.timeline.end) >= time_to_seconds(r.timeline.start)

\* Lines 194-211: whether the row's time range is accepted.
RowAccepted(r) ==
    /\ r.timeline.match
    /\ time_to_seconds(r.timeline.start) # None
    /\ time_to_seconds(r.timeline.end) # None
    /\ time_to_seconds(r.timeline.end) > time_to_seconds(r.timeline.start)

\* Lines 195, 206 and 210: the diagnostic the body prints about the time
\* range of a row, "none" for a row that is stored.
RangeDiagnostic(r) ==
    IF ~r.timeline.match THEN "no_match"
    ELSE IF time_to_seconds(r.timeline.start) = None
            \/ time_to_seconds(r.timeline.end) = None THEN "bad_time"
    ELSE IF time_to_seconds(r.timeline.end) <= time_to_seconds(r.timeline.start)
         THEN "not_after"
    ELSE "none"

\* Lines 216-221.
SegmentEntry(r) ==
    [name |-> r.name,
     page_index |-> PageIndexOf(r.pcell),
     cid |-> None,
     from_seg |-> FromSeg(time_to_seconds(r.timeline.start)),
     to_seg |-> ToSeg(time_to_seconds(r.timeline.end))]

\* ---------------------------------------------------------- fetch_comments
\* Message texts; "" also stands for a missing content or message. The
\* second text is served for id 1 only, which may so come back with a
\* text other than its first.
Msgs == {"", "x", "y"}

\* A reply, top-level or nested, without its nested replies. rpid 0 stands
\* for a missing or falsy id; a None entry of a list behaves as
\* [rpid |-> 0, msg |-> ""] without nested replies.
Replies == {r \in [rpid : 0..MaxId, msg : Msgs] : r.msg = "y" => r.rpid = 1}

Cursors == [is_end : BOOLEAN, all_count : 0..MaxCount]

\* The accumulators of the crawl: all_comments_data, fetched_comment_ids and
\* new_comments_on_page.
Acc(data, ids, new) == [data |-> data, ids |-> ids, new |-> new]

MutRecordable(r, ids) == r.rpid # 0 /\ r.msg # ""

\* Lines 746-747 and 755-756: the condition under which a reply is recorded.
Recordable(r, ids) == r.rpid # 0 /\ r.rpid \notin ids /\ r.msg # ""

\* Lines 746-750 and 755-759: record one reply if it is new and has a text.
RecordReply(r, acc) ==
    IF Recordable(r, acc.ids)
    THEN Acc(Append(acc.data, [text |-> r.msg, id |-> r.rpid]),
             acc.ids \cup {r.rpid},
             acc.new + 1)
    ELSE acc

MutNoReplies(n) == FALSE

\* Line 737: the page is falsy or has no replies.
NoReplies(n) == n = 0

MutIsEnd(c) == FALSE

MutIsEndAlways(c) == TRUE

\* Line 764.
IsEnd(c) == c.is_end

MutTotalReached(c, n) == c.all_count > 0 /\ n > c.all_count

\* Line 767.
TotalReached(c, n) == c.all_count > 0 /\ n >= c.all_count

MutNoNewStop(new, page_num) == new = 0 /\ page_num > 2 + 1

\* Line 770, evaluated after line 762 has incremented the page number.
NoNewStop(new, page_num) == new = 0 /\ page_num > 2

MutStopAfterPage(c, n, new, page_num) == IsEnd(c) \/ NoNewStop(new, page_num)

\* Lines 764-772: whether the loop is left after a page has been folded.
StopAfterPage(c, n, new, page_num) ==
    IsEnd(c) \/ TotalReached(c, n) \/ NoNewStop(new, page_num)

MutTextsOf(data) == <<>>

\* Line 785.
TextsOf(data) == [i \in 1..Len(data) |-> data[i].text]

\* History: seen, extended by r when r is the first reply with a text of its id.
FirstSeen(r, seen) ==
    IF r.rpid # 0 /\ r.msg # "" /\ \A i \in 1..Len(seen) : seen[i].id # r.rpid
    THEN Append(seen, [text |-> r.msg, id |-> r.rpid])
    ELSE seen

\* --------------------------------------------------- fetch_and_save_danmaku
\* The text of an overlay comment; "" also stands for a record without a
\* text attribute.
DmTexts == {"", " ", "a", " b"}

\* str.strip() on the texts of DmTexts.
Strip(t) ==
    CASE t = " " -> ""
      [] t = " b" -> "b"
      [] OTHER -> t

RawLists == UNION {[1..n -> DmTexts] : n \in 0..MaxDm}

\* get_info of the content: the length of its page table (page k, 0-based,
\* has cid k + 1) and the top-level cid, 0 when absent.
VideoInfos == [npages : {0, MaxPages}, topcid : {0, MaxPages + 1}]

\* A segments_config whose entries may lack a window range.
RangeOpts == {<<None, None>>, <<0, None>>, <<0, MaxWin>>, <<MaxWin, MaxWin>>}

ConfigEntries ==
    {[name |-> n, page_index |-> p, cid |-> None, from_seg |-> r[1], to_seg |-> r[2]] :
        n \in SegNames, p \in 0..MaxPages, r \in RangeOpts}

Configs ==
    {c \in UNION {[1..n -> ConfigEntries] : n \in 0..Cardinality(SegNames)} :
        \A i, j \in 1..Len(c) : c[i].name = c[j].name => i = j}

MutLookupCid(cfg, info) ==
    IF info.npages > 0 THEN cfg.page_index + 1 ELSE info.topcid + 1

\* Lines 495-511: the cid of a segment, 0 when the segment is skipped.
LookupCid(cfg, info) ==
    IF cfg.cid # None /\ cfg.cid # 0 THEN cfg.cid
    ELSE IF info.npages > 0 /\ cfg.page_index < info.npages
         THEN cfg.page_index + 1
    ELSE IF info.npages = 0 /\ cfg.page_index = 0 THEN info.topcid
    ELSE 0

\* Line 518.
RangeUndefined(cfg) == cfg.from_seg = None \/ cfg.to_seg = None

MutLastWindow(total) == total

\* Line 524: the last window requested on the fallback path.
LastWindow(total) == IF total - 1 > 0 THEN total - 1 ELSE 0

\* Line 534.
RECURSIVE ExtractTexts(_)
ExtractTexts(raw) ==
    IF raw = <<>> THEN <<>>
    ELSE IF Head(raw) # "" /\ Strip(Head(raw)) # ""
         THEN <<Head(raw)>> \o ExtractTexts(Tail(raw))
         ELSE ExtractTexts(Tail(raw))

MutOnRetrievalError(data, name) == Put(data, [name |-> name, texts |-> <<>>])

\* Lines 529-531: a retrieval that raises leaves the per-segment dict as it is.
OnRetrievalError(data, name) == data

MutStoreSegment(data, name, texts) ==
    <<[name |-> name, texts |-> texts]>> \o data

\* A text with a line break in it.
TwoLineText == "a\nb"

\* str.splitlines, as readlines cuts what was written as one record.
SplitLines(t) == IF t = TwoLineText THEN <<"a", "b">> ELSE <<t>>

\* Line 652 on one written record: its lines, stripped, the blank ones
\* left out.
StrippedLines(t) ==
    LET pieces == SplitLines(t)
        F[i \in 0..Len(pieces)] ==
            IF i = 0 THEN <<>>
            ELSE IF Strip(pieces[i]) # "" THEN Append(F[i - 1], Strip(pieces[i]))
            ELSE F[i - 1]
    IN  F[Len(pieces)]

\* Lines 650-652: the file holds its records followed by a line break each.
RECURSIVE ReadLines(_)
ReadLines(file) ==
    IF file.lines = <<>> THEN <<>>
    ELSE StrippedLines(Head(file.lines))
         \o ReadLines([file EXCEPT !.lines = Tail(file.lines)])

\* Lines 535-536: the texts of a segment are stored and appended.
StoreSegment(data, name, texts) == Put(data, [name |-> name, texts |-> texts])

\* ---------------------------------------------------------- preprocess_text
\* A token is a sequence of characters. The tokens the segmenter may
\* return: words, one of them in two casings, a one-character token, a
\* whitespace token, and a stopword in two casings.
Tokens ==
    {<<"a", "b">>, <<"a", "B">>, <<"b", "c">>, <<"c">>, <<" ", " ">>,
     <<"a", "a">>, <<"A", "a">>, <<"a", "d">>}

\* Lines 380-399: the stopword set; its entries have no upper case, the
\* entries read from the file are lowered at line 385.
STOPWORDS == {<<"a", "a">>, <<" ">>}

\* The filter terms a caller may supply; <<>> is the empty string.
FilterTerms == {<<"B">>, <<"c">>, <<>>}

SegLists == UNION {[1..n -> Tokens] : n \in 0..MaxTok}

\* str.lower() on one character.
LowerChar(ch) ==
    CASE ch = "A" -> "a"
      [] ch = "B" -> "b"
      [] OTHER -> ch

\* str.lower().
Lower(word) == [i \in 1..Len(word) |-> LowerChar(word[i])]

\* bool(word.strip()): the word has a character that is not whitespace.
HasNonSpace(word) == \E i \in 1..Len(word) : word[i] # " "

\* part in word, for strings.
Contains(part, word) ==
    \E k \in 0..(Len(word) - Len(part)) :
        SubSeq(word, k + 1, k + Len(part)) = part

MutIsStopwordOrShort(word) ==
    \/ ~HasNonSpace(word)
    \/ word \in STOPWORDS
    \/ Len(word) <= 1

\* Lines 420-423, negated: the token is dropped by the first filter.
IsStopwordOrShort(word) ==
    \/ ~HasNonSpace(word)
    \/ Lower(word) \in STOPWORDS
    \/ Len(word) <= 1

MutMatchesFilter(word, terms) ==
    \E cfw \in terms : Contains(Lower(cfw), word)

\* Lines 427-432: some lowered filter term is part of the lowered token.
MatchesFilter(word, terms) ==
    \E cfw \in terms : Contains(Lower(cfw), Lower(word))

\* Lines 420-423.
RECURSIVE DropStopwords(_)
DropStopwords(words) ==
    IF words = <<>> THEN <<>>
    ELSE IF IsStopwordOrShort(Head(words)) THEN DropStopwords(Tail(words))
    ELSE <<Head(words)>> \o DropStopwords(Tail(words))

\* Lines 426-433; an empty or missing term list filters nothing.
RECURSIVE DropFiltered(_, _)
DropFiltered(words, terms) ==
    IF words = <<>> \/ terms = {} THEN words
    ELSE IF MatchesFilter(Head(words), terms) THEN DropFiltered(Tail(words), terms)
    ELSE <<Head(words)>> \o DropFiltered(Tail(words), terms)

\* preprocess_text from the segmenter's output on.
PreprocessText(words, terms) == DropFiltered(DropStopwords(words), terms)

\* ------------------------------------------ classify_texts_by_sentiment
\* Sentiment scores in hundredths: SnowNLP(text).sentiments * 100.
Scores == {34, 35, 36, 64, 65, 66}

\* The texts: a falsy one, a whitespace-only one, one text for each score
\* and one on which the scorer raises.
SentTexts == {"", " ", "t34", "t35", "t36", "t64", "t65", "t66", "bad"}

TextLists == UNION {[1..n -> SentTexts] : n \in 0..MaxTexts}

\* Lines 448-449: the score of a text, None when SnowNLP raises.
SnowScore(text) ==
    CASE text = "t34" -> 34
      [] text = "t35" -> 35
      [] text = "t36" -> 36
      [] text = "t64" -> 64
      [] text = "t65" -> 65
      [] text = "t66" -> 66
      [] OTHER -> None

MutBlank(text) == text = ""

\* Line 445.
Blank(text) == text = "" \/ text = " "

MutBucket(score) ==
    IF score >= PosThreshold THEN "positive"
    ELSE IF score < NegThreshold THEN "negative"
    ELSE "neutral"

\* Lines 450-455.
Bucket(score) ==
    IF score > PosThreshold THEN "positive"
    ELSE IF score < NegThreshold THEN "negative"
    ELSE "neutral"

\* categorized_texts[bucket].append(text).
AppendTo(cat, bucket, text) == [cat EXCEPT ![bucket] = Append(@, text)]

MutOnScorerError(cat, text) == cat

\* Lines 456-458: the handler files the text as neutral.
OnScorerError(cat, text) == AppendTo(cat, "neutral", text)

\* Lines 444-458 for one text.
ClassifyOne(cat, text) ==
    IF Blank(text) THEN cat
    ELSE IF SnowScore(text) = None THEN OnScorerError(cat, text)
    ELSE AppendTo(cat, Bucket(SnowScore(text)), text)

\* ---------------------------------------------------------- get_top_n_words
\* The segmenter's outputs for the texts handed to get_top_n_words.
TopTokens == {<<"a", "b">>, <<"b", "c">>, <<"c">>}

TopTextLists ==
    UNION {[1..n -> UNION {[1..k -> TopTokens] : k \in 0..MaxTopTok}] :
               n \in 0..MaxTopTexts}

\* collections.Counter: a dict in insertion order, a pair (word, count) per
\* distinct word; counting one more occurrence of word.
CountOne(counts, word) ==
    IF \E i \in 1..Len(counts) : counts[i][1] = word
    THEN [i \in 1..Len(counts) |->
             IF counts[i][1] = word THEN <<word, counts[i][2] + 1>> ELSE counts[i]]
    ELSE Append(counts, <<word, 1>>)

\* Counter(words).
RECURSIVE Counter(_)
Counter(words) ==
    IF words = <<>> THEN <<>>
    ELSE CountOne(Counter(SubSeq(words, 1, Len(words) - 1)), words[Len(words)])

MutInsertByCount(sorted, item) ==
    LET before == {i \in 1..Len(sorted) : sorted[i][2] > item[2]}
        k == Cardinality(before)
    IN  SubSeq(sorted, 1, k) \o <<item>> \o SubSeq(sorted, k + 1, Len(sorted))

\* The stable sort by descending count of most_common: an item goes after
\* every item of the same or a greater count that came before it.
InsertByCount(sorted, item) ==
    LET before == {i \in 1..Len(sorted) : sorted[i][2] >= item[2]}
        k == Cardinality(before)
    IN  SubSeq(sorted, 1, k) \o <<item>> \o SubSeq(sorted, k + 1, Len(sorted))

RECURSIVE SortByCount(_)
SortByCount(items) ==
    IF items = <<>> THEN <<>>
    ELSE InsertByCount(SortByCount(SubSeq(items, 1, Len(items) - 1)), items[Len(items)])

\* Counter.most_common(n).
MostCommon(counts, n) ==
    LET sorted == SortByCount(counts)
    IN  SubSeq(sorted, 1, IF n < Len(sorted) THEN n ELSE Len(sorted))

\* ------------------------------------------------------- percentage tables
\* A binary64 value of the percentage computations, as a fixed-point
\* number: a sequence of Limbs digits to the base LimbBase, the least one
\* first, the first FracLimbs of them after the point. Every value that
\* occurs is held exactly as long as the total is below 2^7.
LimbBits == 15
LimbBase == 2 ^ LimbBits
FracLimbs == 4
Limbs == FracLimbs + 1
FracBits == FracLimbs * LimbBits

\* The significand of a binary64.
Precision == 53

\* The integer n.
FromInt(n) == [i \in 1..Limbs |-> IF i = Limbs THEN n ELSE 0]

\* The bit of x of weight 2^(i - 1 - FracBits).
Bit(x, i) == (x[(i - 1) \div LimbBits + 1] \div 2 ^ ((i - 1) % LimbBits)) % 2

RECURSIVE AddFrom(_, _, _, _)
AddFrom(x, y, i, carry) ==
    IF i > Limbs THEN <<>>
    ELSE LET sum == x[i] + y[i] + carry
         IN  <<sum % LimbBase>> \o AddFrom(x, y, i + 1, sum \div LimbBase)

\* x + y, exactly.
Add(x, y) == AddFrom(x, y, 1, 0)

RECURSIVE TimesFrom(_, _, _, _)
TimesFrom(x, n, i, carry) ==
    IF i > Limbs THEN <<>>
    ELSE LET prod == x[i] * n + carry
         IN  <<prod % LimbBase>> \o TimesFrom(x, n, i + 1, prod \div LimbBase)

\* x * n for an integer n, exactly.
TimesInt(x, n) == TimesFrom(x, n, 1, 0)

\* The k leading digits after the point of rem / t for rem < t, the least
\* one first.
RECURSIVE LongDiv(_, _, _)
LongDiv(rem, t, k) ==
    IF k = 0 THEN <<>>
    ELSE LongDiv((rem * LimbBase) % t, t, k - 1) \o <<(rem * LimbBase) \div t>>

\* What long division leaves after k digits.
RECURSIVE LongDivRem(_, _, _)
LongDivRem(rem, t, k) ==
    IF k = 0 THEN rem
    ELSE LongDivRem((rem * LimbBase) % t, t, k - 1)

\* The place of the leading 1 of x, 0 for zero.
Top(x) ==
    IF \A i \in 1..Limbs : x[i] = 0 THEN 0
    ELSE LET limb == CHOOSE i \in 1..Limbs : x[i] # 0 /\ \A j \in (i + 1)..Limbs : x[j] = 0
             bit == CHOOSE b \in 1..LimbBits : 2 ^ (b - 1) <= x[limb] /\ x[limb] < 2 ^ b
         IN  (limb - 1) * LimbBits + bit

\* x with its drop lowest bits cleared.
ClearLow(x, drop) ==
    [i \in 1..Limbs |->
        IF i * LimbBits <= drop THEN 0
        ELSE IF (i - 1) * LimbBits >= drop THEN x[i]
        ELSE LET r == 2 ^ (drop - (i - 1) * LimbBits) IN (x[i] \div r) * r]

\* 2^(i - 1 - FracBits).
OneAt(i) ==
    [j \in 1..Limbs |-> IF j = (i - 1) \div LimbBits + 1 THEN 2 ^ ((i - 1) % LimbBits) ELSE 0]

MutRoundToDouble(x, sticky) == x

\* Round to nearest, ties to even, to Precision significant bits; sticky
\* says that the exact value is above x by less than its last place.
RoundToDouble(x, sticky) ==
    LET drop == Top(x) - Precision
    IN  IF drop <= 0 THEN x
        ELSE LET below == sticky \/ ClearLow(x, drop - 1) # x
                 up == Bit(x, drop) = 1 /\ (below \/ Bit(x, drop + 1) = 1)
             IN  IF up THEN Add(ClearLow(x, drop), OneAt(drop + 1))
                 ELSE ClearLow(x, drop)

\* count / total in binary64, for 0 <= count <= total, 0 < total.
FloatDiv(count, total) ==
    LET exact == LongDiv(count % total, total, FracLimbs) \o <<count \div total>>
    IN  RoundToDouble(exact, LongDivRem(count % total, total, FracLimbs) # 0)

MutPercentage(count, total) ==
    RoundToDouble(TimesInt(FloatDiv(count, total + 1), 100), FALSE)

\* Lines 587 and 1041: (count / total) * 100, the product rounded as the
\* quotient was.
Percentage(count, total) ==
    IF total > 0 THEN RoundToDouble(TimesInt(FloatDiv(count, total), 100), FALSE)
    ELSE FromInt(0)

\* Line 590, f"{percentage:.2f}": the decimal with two places nearest to
\* the value, ties to even, as a number of hundredths.
Format2f(x) ==
    LET y == TimesInt(x, 100)
        half == Bit(y, FracBits) = 1
        rest == ClearLow(y, FracBits - 1) # y
        whole == y[Limbs]
    IN  IF half /\ (rest \/ whole % 2 = 1) THEN whole + 1 ELSE whole

\* sum(word_counts.values()).
RECURSIVE SumCounts(_)
SumCounts(counts) ==
    IF counts = <<>> THEN 0
    ELSE counts[1][2] + SumCounts(Tail(counts))

\* Lines 1040-1043: the rows of the returned table.
TableRows(counts, n) ==
    LET top == MostCommon(counts, n)
        total == SumCounts(counts)
    IN  [i \in 1..Len(top) |->
            [rank |-> i, word |-> top[i][1], count |-> top[i][2],
             percentage |-> Percentage(top[i][2], total)]]

\* Lines 586-591: the rows of one segment in the report, 20 at most.
ReportN == 20

ReportRows(counts) ==
    LET top == MostCommon(counts, ReportN)
        total == SumCounts(counts)
    IN  [i \in 1..Len(top) |->
            [rank |-> i, word |-> top[i][1], count |-> top[i][2],
             percentage |-> Format2f(Percentage(top[i][2], total))]]

\* The token streams the two analyses count.
FreqStreams ==
    UNION {[1..n -> {<<"a", "b">>, <<"b", "c">>, <<"a", "d">>}] : n \in 0..MaxStream}

\* ---------------------------------------- get_danmaku_for_specific_programs
\* Segment names and program identifiers, as sequences of characters.
ProgramNames == {<<"A", "b">>, <<"b", "c">>}

Identifiers == {<<"a">>, <<"B">>, <<"d">>}

IdentifierLists == UNION {[1..n -> Identifiers] : n \in 0..MaxIdent}

\* The segment maps: dicts with the segment names as keys.
SegmentMaps ==
    {m \in UNION {[1..n -> [name : ProgramNames, texts : {<<>>, <<"a">>, <<"a", " b">>}]] :
                      n \in 0..Cardinality(ProgramNames)} :
        \A i, j \in 1..Len(m) : m[i].name = m[j].name => i = j}

\* Line 67 and the default of line 923.
FuzzyThreshold == 80

\* What fuzz.partial_ratio may return for a pair of strings: a score on
\* either side of the threshold.
Similarities == [Identifiers \X ProgramNames -> {FuzzyThreshold - 1, FuzzyThreshold}]

NoSimilarity == [pair \in Identifiers \X ProgramNames |-> 0]

\* Lines 956-971 for one identifier.
IdentifierMatches(identifier, name, fuzzy, scores) ==
    IF fuzzy
    THEN scores[<<identifier, name>>] >= FuzzyThreshold
    ELSE Contains(Lower(identifier), Lower(name))

MutIsMatch(name, identifiers, fuzzy, scores) ==
    identifiers # <<>> /\ IdentifierMatches(identifiers[1], name, fuzzy, scores)

\* Lines 952-971: is_match after the loop over the identifiers, which is
\* left at the first match.
IsMatch(name, identifiers, fuzzy, scores) ==
    \E i \in 1..Len(identifiers) :
        IdentifierMatches(identifiers[i], name, fuzzy, scores)

\* ---------------------------------------------------------------- variables
VARIABLES
    segments,       \* load_segments_from_csv: the dict being built; then
                    \* video_segments_to_analyze / segments_config
    row,            \* <<r>> while the body runs for row r, <<>> between rows
    rows_done,      \* rows iterated so far
    warned,         \* the diagnostic printed about the time range of the last row
    lpc             \* "rows" | "body" | "returned" | "failed" (returned None)

VARIABLES
    aid,                    \* video_obj.aid, 0 when absent
    all_comments_data,      \* sequence of [text, id]
    fetched_comment_ids,    \* set of ids
    current_page_num,
    new_comments_on_page,
    todo,                   \* top-level replies of the page not yet iterated
    subs_left,              \* nested replies of the current reply not yet iterated
    cursor,                 \* the cursor of the current page
    comment_texts,          \* the returned list, <<>> before the return
    cpc,                    \* "idle" | "start" | "request" | "fold" | "sleep" | "done"
    resp,                   \* the last response: "none" | "error" | "empty" | "page"
    fetches,                \* history: calls of comment.get_comments
    occurred,               \* history: ids (non-zero rpid) seen in the replies
    withtext,               \* history: per id, its first reply with a text, in order seen
    junk,                   \* history: a reply without id or without text was seen
    total_seen,             \* history: the total all cursors agreed on, else None
    total_same,             \* history: no two cursors reported different totals
    c_paced                 \* history: a delay has run since the last request

VARIABLES
    d_info,                     \* video_info_data of line 486
    seg_i,                      \* position of the loop of line 493 in segments
    d_cid,                      \* cid of the current segment
    d_from,                     \* from_seg of the retrieval about to be made
    d_to,                       \* to_seg of the retrieval about to be made
    segmented_danmaku_data,     \* dict: entries [name, texts]
    all_danmaku_texts_combined,
    d_ret,                      \* the returned dict
    txt_file,                   \* DANMAKU_TXT_FILE: [exists, lines]
    dpc,                        \* "idle" | "get_info" | "lookup" | "view" | "get"
                                \* | "sleep" | "returned" | "raised"
    d_requests,                 \* history: window-count and retrieval requests made
    d_last,                     \* history: "none" | "request" | "delay", the last of them
    d_visited,                  \* history: segments whose iteration has begun
    d_skipped,                  \* history: segments skipped by the cid lookup
    d_errored,                  \* history: segments whose retrieval raised
    d_req,                      \* history: arguments of the last get_danmakus call
    d_total                     \* history: the window count reported in this iteration

VARIABLES
    mpc,                        \* main: "load" | "credential" | "video_info"
                                \* | "danmaku" | "in_danmaku" | "comments"
                                \* | "in_comments" | "report" | "done" | "exit"
                                \* | "raised"; "none" outside main
    segmented_danmaku_result,   \* main's copy of the fetcher's result
    all_danmaku_text_lines      \* analyze_overall_danmaku_from_txt: the lines read

lvars == <<segments, row, rows_done, warned, lpc>>

cvars == <<aid, all_comments_data, fetched_comment_ids, current_page_num,
           new_comments_on_page, todo, subs_left, cursor, comment_texts,
           cpc, resp, fetches, occurred, withtext, junk, total_seen,
           total_same, c_paced>>

\* cvars without cpc and aid.
clocals == <<all_comments_data, fetched_comment_ids, current_page_num,
             new_comments_on_page, todo, subs_left, cursor, comment_texts,
             resp, fetches, occurred, withtext, junk, total_seen,
             total_same, c_paced>>

dvars == <<d_info, seg_i, d_cid, d_from, d_to, segmented_danmaku_data,
           all_danmaku_texts_combined, d_ret, txt_file, dpc, d_requests,
           d_last, d_visited, d_skipped, d_errored, d_req, d_total>>

\* dvars without dpc.
dlocals == <<d_info, seg_i, d_cid, d_from, d_to, segmented_danmaku_data,
             all_danmaku_texts_combined, d_ret, txt_file, d_requests,
             d_last, d_visited, d_skipped, d_errored, d_req, d_total>>

VARIABLES
    texts_list,                 \* the argument of classify_texts_by_sentiment
    text_i,                     \* position of the loop of line 444 in texts_list
    categorized_texts,          \* the three buckets
    spc                         \* "idle" | "start" | "loop" | "returned"

mvars == <<mpc, segmented_danmaku_result, all_danmaku_text_lines>>

svars == <<texts_list, text_i, categorized_texts, spc>>

VARIABLES
    seg_list,                   \* preprocess_text: the segmenter's output (line 417)
    custom_filter_words,        \* preprocess_text: the filter terms, {} for None
    words_after_stopwords,      \* preprocess_text: line 420
    final_filtered_words,       \* preprocess_text: the returned list
    texts_for_sentiment,        \* get_top_n_words: the texts, each as segmented
    top_n,                      \* get_top_n_words and the percentage table: n
    all_words,                  \* get_top_n_words: line 466
    top_words,                  \* get_top_n_words: the returned list
    all_words_for_freq,         \* the counted token stream (lines 1011, 577)
    top_words_data,             \* the table of lines 1034-1046
    frequency_report,           \* the rows of lines 585-590
    wpc                         \* "idle" | "start" | "stopwords" | "extend"
                                \* | "count" | "returned"

wvars == <<seg_list, custom_filter_words, words_after_stopwords,
           final_filtered_words, texts_for_sentiment, top_n, all_words,
           top_words, all_words_for_freq, top_words_data, frequency_report,
           wpc>>

VARIABLES
    all_segmented_danmaku,      \* get_danmaku_for_specific_programs: the segment map
    program_identifiers,        \* the names or keywords to match
    use_fuzzy,                  \* use_fuzzy and THEFUZZ_AVAILABLE
    similarity,                 \* fuzz.partial_ratio of every identifier and name
    combined_danmaku,           \* the result (line 930)
    matched_segment_names,      \* line 949
    seg_k,                      \* the entries of the map iterated so far
    ppc                         \* "idle", "start", "loop", "returned"

pvars == <<all_segmented_danmaku, program_identifiers, use_fuzzy, similarity,
           combined_danmaku, matched_segment_names, seg_k, ppc>>

vars == <<lvars, cvars, dvars, mvars, svars, wvars, pvars>>

\* ------------------------------------------------------------------ initial
InitLoad ==
    /\ segments = <<>>
    /\ row = <<>>
    /\ rows_done = 0
    /\ warned = "none"
    /\ lpc = "rows"

NoCursor == [is_end |-> FALSE, all_count |-> 0]

\* Lines 717-719.
InitCrawlLocals ==
    /\ all_comments_data = <<>>
    /\ fetched_comment_ids = {}
    /\ current_page_num = 1
    /\ new_comments_on_page = 0
    /\ todo = 0
    /\ subs_left = 0
    /\ cursor = NoCursor
    /\ comment_texts = <<>>
    /\ resp = "none"
    /\ fetches = 0
    /\ occurred = {}
    /\ withtext = <<>>
    /\ junk = FALSE
    /\ total_seen = None
    /\ total_same = TRUE
    /\ c_paced = FALSE

NoFile == [exists |-> FALSE, lines |-> <<>>]

\* A combined text file left by an earlier run.
StaleFile == [exists |-> TRUE, lines |-> <<"old">>]

\* Lines 482-483.
InitDanmakuLocals ==
    /\ d_info = [npages |-> 0, topcid |-> 0]
    /\ seg_i = 1
    /\ d_cid = 0
    /\ d_from = None
    /\ d_to = None
    /\ segmented_danmaku_data = <<>>
    /\ all_danmaku_texts_combined = <<>>
    /\ d_ret = <<>>
    /\ txt_file \in {NoFile, StaleFile}
    /\ d_requests = 0
    /\ d_last = "none"
    /\ d_visited = {}
    /\ d_skipped = {}
    /\ d_errored = {}
    /\ d_req = <<>>
    /\ d_total = None

InitProgramsIdle ==
    /\ all_segmented_danmaku = <<>>
    /\ program_identifiers = <<>>
    /\ use_fuzzy = FALSE
    /\ similarity = NoSimilarity
    /\ combined_danmaku = <<>>
    /\ matched_segment_names = {}
    /\ seg_k = 0
    /\ ppc = "idle"

\* Line 439.
NoBuckets == [positive |-> <<>>, neutral |-> <<>>, negative |-> <<>>]

InitWordsIdle ==
    /\ seg_list = <<>>
    /\ custom_filter_words = {}
    /\ words_after_stopwords = <<>>
    /\ final_filtered_words = <<>>
    /\ texts_for_sentiment = <<>>
    /\ top_n = 0
    /\ all_words = <<>>
    /\ top_words = <<>>
    /\ all_words_for_freq = <<>>
    /\ top_words_data = <<>>
    /\ frequency_report = <<>>
    /\ wpc = "idle"

InitClassifyIdle ==
    /\ texts_list = <<>>
    /\ text_i = 1
    /\ categorized_texts = NoBuckets
    /\ spc = "idle"

\* ------------------------------------------------- load_segments_from_csv
\* Line 179: df.iterrows() yields the next row.
NextRow(r) ==
    /\ lpc = "rows"
    /\ rows_done < MaxRows
    /\ row' = <<r>>
    /\ rows_done' = rows_done + 1
    /\ warned' = "none"
    /\ lpc' = "body"
    /\ UNCHANGED <<segments, cvars, dvars, mvars, svars, wvars, pvars>>

\* Lines 180-221 for a row whose cells convert: the row is stored or skipped.
ProcessRow ==
    /\ lpc = "body"
    /\ PageCellOutcome(row[1].pcell) # "OverflowError"
    /\ segments' = IF RowAccepted(row[1])
                   THEN Put(segments, SegmentEntry(row[1]))
                   ELSE segments
    /\ row' = <<>>
    /\ lpc' = "rows"
    /\ warned' = RangeDiagnostic(row[1])
    /\ UNCHANGED <<rows_done, cvars, dvars, mvars, svars, wvars, pvars>>

\* Line 186: int() raises OverflowError, which only the handler of line 230
\* catches: the function returns None.
ProcessRowFails ==
    /\ lpc = "body"
    /\ PageCellOutcome(row[1].pcell) = "OverflowError"
    /\ row' = <<>>
    /\ lpc' = "failed"
    /\ UNCHANGED <<segments, rows_done, warned, cvars, dvars, mvars, svars, wvars, pvars>>

\* The rows are exhausted: line 236.
LoadReturn ==
    /\ lpc = "rows"
    /\ lpc' = "returned"
    /\ UNCHANGED <<segments, row, rows_done, warned, cvars, dvars, mvars, svars, wvars, pvars>>

\* ---------------------------------------------------------- fetch_comments
MutCrawlStart ==
    /\ cpc = "start"
    /\ cpc' = "request"
    /\ UNCHANGED <<aid, clocals, lvars, dvars, mvars, svars, wvars, pvars>>

\* Lines 721-723: without an aid the function returns [] at once.
CrawlStart ==
    /\ cpc = "start"
    /\ cpc' = IF aid = 0 THEN "done" ELSE "request"
    /\ UNCHANGED <<aid, clocals, lvars, dvars, mvars, svars, wvars, pvars>>

\* Lines 730-735 raise: the handlers of lines 776-782 leave the loop and
\* line 785 returns what was collected.
RequestError ==
    /\ cpc = "request"
    /\ fetches' = fetches + 1
    /\ resp' = "error"
    /\ c_paced' = FALSE
    /\ comment_texts' = TextsOf(all_comments_data)
    /\ cpc' = "done"
    /\ UNCHANGED <<aid, all_comments_data, fetched_comment_ids, current_page_num,
                   new_comments_on_page, todo, subs_left, cursor, occurred,
                   withtext, junk, total_seen, total_same, lvars, dvars, mvars, svars, wvars, pvars>>

\* Lines 730-744: the response arrives with n top-level replies and cursor
\* c; n = 0 stands for a falsy page or one without replies, which ends the
\* loop (lines 737-739, 785).
RequestPage(n, c) ==
    /\ cpc = "request"
    /\ fetches' = fetches + 1
    /\ resp' = IF n = 0 THEN "empty" ELSE "page"
    /\ c_paced' = FALSE
    /\ todo' = n
    /\ IF NoReplies(n)
       THEN /\ cpc' = "done"
            /\ comment_texts' = TextsOf(all_comments_data)
            /\ UNCHANGED <<cursor, new_comments_on_page, total_seen, total_same>>
       ELSE /\ cpc' = "fold"
            /\ cursor' = c
            /\ new_comments_on_page' = 0
            /\ total_same' = (total_same /\ total_seen \in {None, c.all_count})
            /\ total_seen' = IF total_same' THEN c.all_count ELSE None
            /\ UNCHANGED comment_texts
    /\ UNCHANGED <<aid, all_comments_data, fetched_comment_ids, current_page_num,
                   subs_left, occurred, withtext, junk, lvars, dvars, mvars, svars, wvars, pvars>>

\* Lines 746-750 or 755-759 for reply r, with the history of what was served.
Record(r) ==
    /\ LET acc == RecordReply(r, Acc(all_comments_data, fetched_comment_ids,
                                     new_comments_on_page))
       IN  /\ all_comments_data' = acc.data
           /\ fetched_comment_ids' = acc.ids
           /\ new_comments_on_page' = acc.new
    /\ occurred' = occurred \cup ({r.rpid} \ {0})
    /\ withtext' = FirstSeen(r, withtext)
    /\ junk' = (junk \/ r.rpid = 0 \/ r.msg = "")

\* Lines 745-753: the next top-level reply r of the page, which carries k
\* nested replies, is iterated.
FoldReply(r, k) ==
    /\ cpc = "fold"
    /\ subs_left = 0
    /\ todo > 0
    /\ Record(r)
    /\ todo' = todo - 1
    /\ subs_left' = k
    /\ UNCHANGED <<aid, current_page_num, cursor, comment_texts, cpc, resp,
                   fetches, total_seen, total_same, c_paced, lvars, dvars, mvars, svars, wvars, pvars>>

\* Lines 754-759: the next nested reply r of the current reply is iterated.
FoldSubReply(r) ==
    /\ cpc = "fold"
    /\ subs_left > 0
    /\ Record(r)
    /\ subs_left' = subs_left - 1
    /\ UNCHANGED <<aid, current_page_num, todo, cursor, comment_texts, cpc, resp,
                   fetches, total_seen, total_same, c_paced, lvars, dvars, mvars, svars, wvars, pvars>>

\* Lines 762-772 and 785: the page number advances and the loop is left,
\* or line 775 is reached.
Paging ==
    /\ cpc = "fold"
    /\ todo = 0
    /\ subs_left = 0
    /\ current_page_num' = current_page_num + 1
    /\ IF StopAfterPage(cursor, Cardinality(fetched_comment_ids),
                        new_comments_on_page, current_page_num + 1)
       THEN /\ cpc' = "done"
            /\ comment_texts' = TextsOf(all_comments_data)
       ELSE /\ cpc' = "sleep"
            /\ UNCHANGED comment_texts
    /\ UNCHANGED <<aid, all_comments_data, fetched_comment_ids,
                   new_comments_on_page, todo, subs_left, cursor, resp, fetches,
                   occurred, withtext, junk, total_seen, total_same, c_paced,
                   lvars, dvars, mvars, svars, wvars, pvars>>

MutCrawlSleep ==
    /\ cpc = "sleep"
    /\ cpc' = "request"
    /\ UNCHANGED <<aid, all_comments_data, fetched_comment_ids, current_page_num,
                   new_comments_on_page, todo, subs_left, cursor, comment_texts,
                   resp, fetches, occurred, withtext, junk, total_seen,
                   total_same, c_paced, lvars, dvars, mvars, svars, wvars, pvars>>

\* Line 775.
CrawlSleep ==
    /\ cpc = "sleep"
    /\ c_paced' = TRUE
    /\ cpc' = "request"
    /\ UNCHANGED <<aid, all_comments_data, fetched_comment_ids, current_page_num,
                   new_comments_on_page, todo, subs_left, cursor, comment_texts,
                   resp, fetches, occurred, withtext, junk, total_seen,
                   total_same, lvars, dvars, mvars, svars, wvars, pvars>>

\* --------------------------------------------------- fetch_and_save_danmaku
Segment == segments[seg_i]

\* Line 486 returns: with an empty segments_config the function returns {}
\* (lines 489-491), else the loop of line 493 begins.
DanmakuGetInfo(info) ==
    /\ dpc = "get_info"
    /\ d_info' = info
    /\ IF segments = <<>>
       THEN dpc' = "returned"
       ELSE dpc' = "lookup"
    /\ UNCHANGED <<seg_i, d_cid, d_from, d_to, segmented_danmaku_data,
                   all_danmaku_texts_combined, d_ret, txt_file, d_requests,
                   d_last, d_visited, d_skipped, d_errored, d_req, d_total,
                   lvars, cvars, mvars, svars, wvars, pvars>>

\* Line 486 raises: no handler in the function, the exception leaves it.
DanmakuGetInfoRaises ==
    /\ dpc = "get_info"
    /\ dpc' = "raised"
    /\ UNCHANGED <<dlocals, lvars, cvars, mvars, svars, wvars, pvars>>

MutDanmakuLookup ==
    /\ dpc = "lookup"
    /\ seg_i <= Len(segments)
    /\ d_total' = None
    /\ d_visited' = d_visited \cup {Segment.name}
    /\ IF LookupCid(Segment, d_info) = 0
       THEN /\ d_skipped' = d_skipped \cup {Segment.name}
            /\ seg_i' = seg_i + 1
            /\ UNCHANGED <<d_cid, d_from, d_to, dpc, segments>>
       ELSE /\ d_cid' = LookupCid(Segment, d_info)
            /\ segments' = [segments EXCEPT ![seg_i].cid = LookupCid(Segment, d_info)]
            /\ d_from' = Segment.from_seg
            /\ d_to' = Segment.to_seg
            /\ dpc' = IF RangeUndefined(Segment) THEN "view" ELSE "get"
            /\ UNCHANGED <<d_skipped, seg_i>>
    /\ UNCHANGED <<d_info, segmented_danmaku_data, all_danmaku_texts_combined,
                   d_ret, txt_file, d_requests, d_last, d_errored, d_req,
                   row, rows_done, warned, lpc, cvars, mvars, svars, wvars, pvars>>

\* Lines 493-514: the next segment; it is skipped when no cid is found.
DanmakuLookup ==
    /\ dpc = "lookup"
    /\ seg_i <= Len(segments)
    /\ d_total' = None
    /\ d_visited' = d_visited \cup {Segment.name}
    /\ IF LookupCid(Segment, d_info) = 0
       THEN /\ d_skipped' = d_skipped \cup {Segment.name}
            /\ seg_i' = seg_i + 1
            /\ UNCHANGED <<d_cid, d_from, d_to, dpc>>
       ELSE /\ d_cid' = LookupCid(Segment, d_info)
            /\ d_from' = Segment.from_seg
            /\ d_to' = Segment.to_seg
            /\ dpc' = IF RangeUndefined(Segment) THEN "view" ELSE "get"
            /\ UNCHANGED <<d_skipped, seg_i>>
    /\ UNCHANGED <<d_info, segmented_danmaku_data, all_danmaku_texts_combined,
                   d_ret, txt_file, d_requests, d_last, d_errored, d_req,
                   lvars, cvars, mvars, svars, wvars, pvars>>

\* Lines 520-524: the window count of the track arrives; a count of 0 makes
\* no retrieval and stores the empty list (lines 534-539).
DanmakuView(total) ==
    /\ dpc = "view"
    /\ d_requests' = d_requests + 1
    /\ d_last' = "request"
    /\ d_total' = total
    /\ IF total > 0
       THEN /\ d_from' = 0
            /\ d_to' = LastWindow(total)
            /\ dpc' = "get"
            /\ UNCHANGED <<segmented_danmaku_data>>
       ELSE /\ segmented_danmaku_data' =
                   StoreSegment(segmented_danmaku_data, Segment.name, <<>>)
            /\ dpc' = "sleep"
            /\ UNCHANGED <<d_from, d_to>>
    /\ UNCHANGED <<d_info, seg_i, d_cid, all_danmaku_texts_combined, d_ret,
                   txt_file, d_visited, d_skipped, d_errored, d_req,
                   lvars, cvars, mvars, svars, wvars, pvars>>

\* Line 520 raises: lines 529-531 go on with the next segment.
DanmakuViewRaises ==
    /\ dpc = "view"
    /\ d_requests' = d_requests + 1
    /\ d_last' = "request"
    /\ d_errored' = d_errored \cup {Segment.name}
    /\ segmented_danmaku_data' = OnRetrievalError(segmented_danmaku_data, Segment.name)
    /\ seg_i' = seg_i + 1
    /\ dpc' = "lookup"
    /\ UNCHANGED <<d_info, d_cid, d_from, d_to, all_danmaku_texts_combined,
                   d_ret, txt_file, d_visited, d_skipped, d_req, d_total,
                   lvars, cvars, mvars, svars, wvars, pvars>>

\* Lines 524/527 and 534-536: the retrieval returns raw.
DanmakuGet(raw) ==
    /\ dpc = "get"
    /\ d_requests' = d_requests + 1
    /\ d_last' = "request"
    /\ d_req' = <<d_cid, d_from, d_to>>
    /\ segmented_danmaku_data' =
           StoreSegment(segmented_danmaku_data, Segment.name, ExtractTexts(raw))
    /\ all_danmaku_texts_combined' = all_danmaku_texts_combined \o ExtractTexts(raw)
    /\ dpc' = "sleep"
    /\ UNCHANGED <<d_info, seg_i, d_cid, d_from, d_to, d_ret, txt_file,
                   d_visited, d_skipped, d_errored, d_total, lvars, cvars, mvars, svars, wvars, pvars>>

\* Lines 524/527 raise: lines 529-531 go on with the next segment.
DanmakuGetRaises ==
    /\ dpc = "get"
    /\ d_requests' = d_requests + 1
    /\ d_last' = "request"
    /\ d_req' = <<d_cid, d_from, d_to>>
    /\ d_errored' = d_errored \cup {Segment.name}
    /\ segmented_danmaku_data' = OnRetrievalError(segmented_danmaku_data, Segment.name)
    /\ seg_i' = seg_i + 1
    /\ dpc' = "lookup"
    /\ UNCHANGED <<d_info, d_cid, d_from, d_to, all_danmaku_texts_combined,
                   d_ret, txt_file, d_visited, d_skipped, d_total,
                   lvars, cvars, mvars, svars, wvars, pvars>>

\* Line 539.
DanmakuSleep ==
    /\ dpc = "sleep"
    /\ d_last' = "delay"
    /\ seg_i' = seg_i + 1
    /\ dpc' = "lookup"
    /\ UNCHANGED <<d_info, d_cid, d_from, d_to, segmented_danmaku_data,
                   all_danmaku_texts_combined, d_ret, txt_file, d_requests,
                   d_visited, d_skipped, d_errored, d_req, d_total,
                   lvars, cvars, mvars, svars, wvars, pvars>>

MutDanmakuFinish(write_ok) ==
    /\ dpc = "lookup"
    /\ seg_i > Len(segments)
    /\ d_ret' = segmented_danmaku_data
    /\ txt_file' = IF write_ok
                   THEN [exists |-> TRUE, lines |-> all_danmaku_texts_combined]
                   ELSE txt_file
    /\ dpc' = "returned"
    /\ UNCHANGED <<d_info, seg_i, d_cid, d_from, d_to, segmented_danmaku_data,
                   all_danmaku_texts_combined, d_requests, d_last, d_visited,
                   d_skipped, d_errored, d_req, d_total, lvars, cvars, mvars, svars, wvars, pvars>>

\* Lines 541-555: after the loop; {} is returned when no text was collected,
\* else the combined file is written (a failure is caught) and the dict
\* is returned.
DanmakuFinish(write_ok) ==
    /\ dpc = "lookup"
    /\ seg_i > Len(segments)
    /\ IF all_danmaku_texts_combined = <<>>
       THEN /\ d_ret' = <<>>
            /\ UNCHANGED txt_file
       ELSE /\ d_ret' = segmented_danmaku_data
            /\ txt_file' = IF write_ok
                           THEN [exists |-> TRUE, lines |-> all_danmaku_texts_combined]
                           ELSE txt_file
    /\ dpc' = "returned"
    /\ UNCHANGED <<d_info, seg_i, d_cid, d_from, d_to, segmented_danmaku_data,
                   all_danmaku_texts_combined, d_requests, d_last, d_visited,
                   d_skipped, d_errored, d_req, d_total, lvars, cvars, mvars, svars, wvars, pvars>>

\* --------------------------------------------------------------------- main
\* Lines 1150-1155: the segments are loaded; None ends main.
MainLoaded ==
    /\ mpc = "load"
    /\ lpc \in {"returned", "failed"}
    /\ mpc' = IF lpc = "failed" THEN "exit" ELSE "credential"
    /\ UNCHANGED <<segmented_danmaku_result, all_danmaku_text_lines, lvars, cvars, dvars, svars, wvars, pvars>>

\* Lines 1176-1194: without a credential main returns.
MainCredential(ok) ==
    /\ mpc = "credential"
    /\ mpc' = IF ok THEN "video_info" ELSE "exit"
    /\ UNCHANGED <<segmented_danmaku_result, all_danmaku_text_lines, lvars, cvars, dvars, svars, wvars, pvars>>

\* Lines 1197-1216: main's own get_info; a failure or a result without title
\* or aid makes main return.
MainVideoInfo(ok) ==
    /\ mpc = "video_info"
    /\ IF ok
       THEN aid' = 1 /\ mpc' = "danmaku"
       ELSE aid' = aid /\ mpc' = "exit"
    /\ UNCHANGED <<segmented_danmaku_result, all_danmaku_text_lines, clocals, cpc, lvars, dvars, svars, wvars, pvars>>

\* Lines 1220-1221 and 1267: the fetcher is called unless there is no segment.
MainCallDanmaku ==
    /\ mpc = "danmaku"
    /\ IF segments # <<>>
       THEN dpc' = "get_info" /\ mpc' = "in_danmaku"
       ELSE dpc' = dpc /\ mpc' = "comments"
    /\ UNCHANGED <<segmented_danmaku_result, all_danmaku_text_lines, dlocals, lvars, cvars, svars, wvars, pvars>>

\* Lines 1221-1266: the fetcher has returned; with a result that is not
\* empty and the combined file in place, the overall analysis reads the
\* file (lines 1223-1227, 646-652).
MainDanmakuReturned ==
    /\ mpc = "in_danmaku"
    /\ dpc = "returned"
    /\ segmented_danmaku_result' = d_ret
    /\ all_danmaku_text_lines' =
           IF d_ret # <<>> /\ txt_file.exists
           THEN ReadLines(txt_file)
           ELSE all_danmaku_text_lines
    /\ mpc' = "comments"
    /\ UNCHANGED <<lvars, cvars, dvars, svars, wvars, pvars>>

\* Line 1221: an exception of the fetcher is not handled in main.
MainDanmakuRaised ==
    /\ mpc = "in_danmaku"
    /\ dpc = "raised"
    /\ mpc' = "raised"
    /\ UNCHANGED <<segmented_danmaku_result, all_danmaku_text_lines, lvars, cvars, dvars, svars, wvars, pvars>>

MutMainCallComments ==
    /\ mpc \in {"in_danmaku", "comments"}
    /\ cpc = "idle"
    /\ aid # 0
    /\ cpc' = "start"
    /\ mpc' = IF mpc = "comments" THEN "in_comments" ELSE mpc
    /\ UNCHANGED <<segmented_danmaku_result, all_danmaku_text_lines, aid, clocals, lvars, dvars, svars, wvars, pvars>>

\* Lines 1273-1275 and 1286.
MainCallComments ==
    /\ mpc = "comments"
    /\ IF aid # 0
       THEN cpc' = "start" /\ mpc' = "in_comments"
       ELSE cpc' = cpc /\ mpc' = "report"
    /\ UNCHANGED <<segmented_danmaku_result, all_danmaku_text_lines, aid, clocals, lvars, dvars, svars, wvars, pvars>>

\* Lines 1275-1284: the crawl has returned; the comments are analysed.
MainCommentsReturned ==
    /\ mpc = "in_comments"
    /\ cpc = "done"
    /\ mpc' = "report"
    /\ UNCHANGED <<segmented_danmaku_result, all_danmaku_text_lines, lvars, cvars, dvars, svars, wvars, pvars>>

\* Lines 1289-1301.
MainReport ==
    /\ mpc = "report"
    /\ mpc' = "done"
    /\ UNCHANGED <<segmented_danmaku_result, all_danmaku_text_lines, lvars, cvars, dvars, svars, wvars, pvars>>

\* ------------------------------------------ classify_texts_by_sentiment
\* Lines 440-441: an empty list returns the empty buckets at once.
ClassifyStart ==
    /\ spc = "start"
    /\ spc' = IF texts_list = <<>> THEN "returned" ELSE "loop"
    /\ UNCHANGED <<texts_list, text_i, categorized_texts, lvars, cvars, dvars, mvars, wvars, pvars>>

\* Lines 444-458: one iteration of the loop.
ClassifyText ==
    /\ spc = "loop"
    /\ text_i <= Len(texts_list)
    /\ categorized_texts' = ClassifyOne(categorized_texts, texts_list[text_i])
    /\ text_i' = text_i + 1
    /\ UNCHANGED <<texts_list, spc, lvars, cvars, dvars, mvars, wvars, pvars>>

\* Line 459.
ClassifyReturn ==
    /\ spc = "loop"
    /\ text_i > Len(texts_list)
    /\ spc' = "returned"
    /\ UNCHANGED <<texts_list, text_i, categorized_texts, lvars, cvars, dvars, mvars, wvars, pvars>>

\* ---------------------------------------------------------- preprocess_text
\* Lines 420-423.
PreprocessStopwords ==
    /\ wpc = "start"
    /\ words_after_stopwords' = DropStopwords(seg_list)
    /\ wpc' = "stopwords"
    /\ UNCHANGED <<seg_list, custom_filter_words, final_filtered_words,
                   texts_for_sentiment, top_n, all_words, top_words,
                   all_words_for_freq, top_words_data, frequency_report,
                   lvars, cvars, dvars, mvars, svars, pvars>>

\* Lines 426-435.
PreprocessFilter ==
    /\ wpc = "stopwords"
    /\ final_filtered_words' = DropFiltered(words_after_stopwords, custom_filter_words)
    /\ wpc' = "returned"
    /\ UNCHANGED <<seg_list, custom_filter_words, words_after_stopwords,
                   texts_for_sentiment, top_n, all_words, top_words,
                   all_words_for_freq, top_words_data, frequency_report,
                   lvars, cvars, dvars, mvars, svars, pvars>>

\* ---------------------------------------------------------- get_top_n_words
\* Lines 463-466.
TopStart ==
    /\ wpc = "start"
    /\ IF texts_for_sentiment = <<>>
       THEN /\ top_words' = <<>>
            /\ wpc' = "returned"
       ELSE /\ top_words' = top_words
            /\ wpc' = "extend"
    /\ all_words' = <<>>
    /\ UNCHANGED <<seg_list, custom_filter_words, words_after_stopwords,
                   final_filtered_words, texts_for_sentiment, top_n,
                   all_words_for_freq, top_words_data, frequency_report,
                   lvars, cvars, dvars, mvars, svars, pvars>>

\* Lines 467-470, one text; seg_list counts the texts taken.
TopExtend ==
    /\ wpc = "extend"
    /\ Len(seg_list) < Len(texts_for_sentiment)
    /\ all_words' = all_words \o PreprocessText(texts_for_sentiment[Len(seg_list) + 1], {})
    /\ seg_list' = Append(seg_list, <<>>)
    /\ UNCHANGED <<custom_filter_words, words_after_stopwords,
                   final_filtered_words, texts_for_sentiment, top_n, top_words,
                   all_words_for_freq, top_words_data, frequency_report, wpc,
                   lvars, cvars, dvars, mvars, svars, pvars>>

\* Lines 472-476.
TopCount ==
    /\ wpc = "extend"
    /\ Len(seg_list) = Len(texts_for_sentiment)
    /\ top_words' = IF all_words = <<>> THEN <<>>
                    ELSE MostCommon(Counter(all_words), top_n)
    /\ wpc' = "returned"
    /\ UNCHANGED <<seg_list, custom_filter_words, words_after_stopwords,
                   final_filtered_words, texts_for_sentiment, top_n, all_words,
                   all_words_for_freq, top_words_data, frequency_report,
                   lvars, cvars, dvars, mvars, svars, pvars>>

\* ------------------------------------------------------- percentage tables
\* Lines 1024-1046 of analyze_traditional_danmaku_word_frequency, from the
\* counted token stream on.
FreqTable ==
    /\ wpc = "start"
    /\ top_words_data' =
           IF all_words_for_freq = <<>> \/ SumCounts(Counter(all_words_for_freq)) = 0
           THEN <<>>
           ELSE TableRows(Counter(all_words_for_freq), top_n)
    /\ wpc' = "returned"
    /\ UNCHANGED <<seg_list, custom_filter_words, words_after_stopwords,
                   final_filtered_words, texts_for_sentiment, top_n, all_words,
                   top_words, all_words_for_freq, frequency_report,
                   lvars, cvars, dvars, mvars, svars, pvars>>

\* Lines 581-591, one segment of the report; all_words_for_freq holds the
\* segment's processed_words_segment_for_wc.
ReportSegment ==
    /\ wpc = "start"
    /\ frequency_report' =
           IF all_words_for_freq = <<>> THEN frequency_report
           ELSE frequency_report \o ReportRows(Counter(all_words_for_freq))
    /\ wpc' = "reported"
    /\ UNCHANGED <<seg_list, custom_filter_words, words_after_stopwords,
                   final_filtered_words, texts_for_sentiment, top_n, all_words,
                   top_words, all_words_for_freq, top_words_data,
                   lvars, cvars, dvars, mvars, svars, pvars>>

\* ---------------------------------------- get_danmaku_for_specific_programs
\* Lines 931-936: an empty map or identifier list returns the empty list.
ProgramsStart ==
    /\ ppc = "start"
    /\ combined_danmaku' = <<>>
    /\ ppc' = IF all_segmented_danmaku = <<>> \/ program_identifiers = <<>>
              THEN "returned" ELSE "loop"
    /\ UNCHANGED <<all_segmented_danmaku, program_identifiers, use_fuzzy,
                   similarity, matched_segment_names, seg_k,
                   lvars, cvars, dvars, mvars, svars, wvars>>

\* Lines 951-980: the next entry of the map.
ProgramsSegment ==
    /\ ppc = "loop"
    /\ seg_k < Len(all_segmented_danmaku)
    /\ LET entry == all_segmented_danmaku[seg_k + 1]
       IN  IF IsMatch(entry.name, program_identifiers, use_fuzzy, similarity)
           THEN /\ matched_segment_names' = matched_segment_names \cup {entry.name}
                /\ combined_danmaku' = combined_danmaku \o entry.texts
           ELSE UNCHANGED <<matched_segment_names, combined_danmaku>>
    /\ seg_k' = seg_k + 1
    /\ UNCHANGED <<all_segmented_danmaku, program_identifiers, use_fuzzy,
                   similarity, ppc, lvars, cvars, dvars, mvars, svars, wvars>>

\* Lines 985-991.
ProgramsReturn ==
    /\ ppc = "loop"
    /\ seg_k = Len(all_segmented_danmaku)
    /\ ppc' = "returned"
    /\ UNCHANGED <<all_segmented_danmaku, program_identifiers, use_fuzzy,
                   similarity, combined_danmaku, matched_segment_names, seg_k,
                   lvars, cvars, dvars, mvars, svars, wvars>>

\* ---------------------------------------------------------- specifications
\* load_segments_from_csv on any rows.
InitLoadOnly ==
    /\ InitLoad
    /\ InitCrawlLocals /\ aid = 0 /\ cpc = "idle"
    /\ InitDanmakuLocals /\ txt_file = NoFile /\ dpc = "idle"
    /\ mpc = "none" /\ segmented_danmaku_result = <<>>
    /\ all_danmaku_text_lines = <<>>
    /\ InitClassifyIdle
    /\ InitWordsIdle
    /\ InitProgramsIdle

NextLoad ==
    \/ \E r \in Rows : NextRow(r)
    \/ ProcessRow
    \/ ProcessRowFails
    \/ LoadReturn

SpecLoad == InitLoadOnly /\ [][NextLoad]_vars

\* fetch_comments against any provider.
InitCrawl ==
    /\ segments = <<>> /\ row = <<>> /\ rows_done = 0 /\ warned = "none"
    /\ lpc = "returned"
    /\ InitCrawlLocals /\ aid \in {0, 1} /\ cpc = "start"
    /\ InitDanmakuLocals /\ txt_file = NoFile /\ dpc = "idle"
    /\ mpc = "none" /\ segmented_danmaku_result = <<>>
    /\ all_danmaku_text_lines = <<>>
    /\ InitClassifyIdle
    /\ InitWordsIdle
    /\ InitProgramsIdle

NextCrawl ==
    \/ CrawlStart
    \/ RequestError
    \/ \E n \in 0..PageSize, c \in Cursors : RequestPage(n, c)
    \/ \E r \in Replies, k \in 0..MaxSub : FoldReply(r, k)
    \/ \E r \in Replies : FoldSubReply(r)
    \/ Paging
    \/ CrawlSleep

SpecCrawl == InitCrawl /\ [][NextCrawl]_vars

\* fetch_and_save_danmaku on any segments_config.
InitDanmaku ==
    /\ segments \in Configs /\ row = <<>> /\ rows_done = 0 /\ warned = "none"
    /\ lpc = "returned"
    /\ InitCrawlLocals /\ aid = 1 /\ cpc = "idle"
    /\ InitDanmakuLocals /\ dpc = "get_info"
    /\ mpc = "none" /\ segmented_danmaku_result = <<>>
    /\ all_danmaku_text_lines = <<>>
    /\ InitClassifyIdle
    /\ InitWordsIdle
    /\ InitProgramsIdle

NextDanmaku ==
    \/ \E info \in VideoInfos : DanmakuGetInfo(info)
    \/ DanmakuGetInfoRaises
    \/ DanmakuLookup
    \/ \E total \in 0..MaxTotal : DanmakuView(total)
    \/ DanmakuViewRaises
    \/ \E raw \in RawLists : DanmakuGet(raw)
    \/ DanmakuGetRaises
    \/ DanmakuSleep
    \/ \E ok \in BOOLEAN : DanmakuFinish(ok)

SpecDanmaku == InitDanmaku /\ [][NextDanmaku]_vars

\* main from line 1150 on, against a provider with fewer answers. The loader
\* sets both windows of every segment, so that the fallback of lines 520-524
\* (DanmakuView) is not reached from main.
MainTimelines ==
    {t \in Timelines :
        \/ ~t.match
        \/ t.start = <<0, 0>> /\ t.end \in {<<0, 0>>, <<0, 59>>, <<MaxMin, 59>>}}

MainRows ==
    {r \in Rows : r.pcell.kind \in {"nan", "inf"} /\ r.timeline \in MainTimelines}

MainInfos == {i \in VideoInfos : i.topcid # 0}

MainRawLists ==
    {raw \in RawLists : Len(raw) <= 1 /\ \A i \in 1..Len(raw) : raw[i] # ""}
    \cup {<<TwoLineText>>}

MainReplies == {r \in Replies : r.rpid \in {1, 2} /\ r.msg = "x"}

MainCursors == {c \in Cursors : c.all_count \in {0, 2}}

InitMain ==
    /\ InitLoad
    /\ InitCrawlLocals /\ aid = 0 /\ cpc = "idle"
    /\ InitDanmakuLocals /\ dpc = "idle"
    /\ mpc = "load" /\ segmented_danmaku_result = <<>>
    /\ all_danmaku_text_lines = <<>>
    /\ InitClassifyIdle
    /\ InitWordsIdle
    /\ InitProgramsIdle

NextMain ==
    \/ \E r \in MainRows : NextRow(r)
    \/ ProcessRow
    \/ ProcessRowFails
    \/ LoadReturn
    \/ MainLoaded
    \/ \E ok \in BOOLEAN : MainCredential(ok)
    \/ \E ok \in BOOLEAN : MainVideoInfo(ok)
    \/ MainCallDanmaku
    \/ \E info \in MainInfos : DanmakuGetInfo(info)
    \/ DanmakuGetInfoRaises
    \/ DanmakuLookup
    \/ \E raw \in MainRawLists : DanmakuGet(raw)
    \/ DanmakuGetRaises
    \/ DanmakuSleep
    \/ \E ok \in BOOLEAN : DanmakuFinish(ok)
    \/ MainDanmakuReturned
    \/ MainDanmakuRaised
    \/ MainCallComments
    \/ CrawlStart
    \/ RequestError
    \/ \E n \in 0..1, c \in MainCursors : RequestPage(n, c)
    \/ \E r \in MainReplies, k \in 0..1 : FoldReply(r, k)
    \/ \E r \in MainReplies : FoldSubReply(r)
    \/ Paging
    \/ CrawlSleep
    \/ MainCommentsReturned
    \/ MainReport

SpecMain == InitMain /\ [][NextMain]_vars

InitClassify ==
    /\ segments = <<>> /\ row = <<>> /\ rows_done = 0 /\ warned = "none"
    /\ lpc = "returned"
    /\ InitCrawlLocals /\ aid = 0 /\ cpc = "idle"
    /\ InitDanmakuLocals /\ txt_file = NoFile /\ dpc = "idle"
    /\ mpc = "none" /\ segmented_danmaku_result = <<>>
    /\ all_danmaku_text_lines = <<>>
    /\ texts_list \in TextLists
    /\ text_i = 1
    /\ categorized_texts = NoBuckets
    /\ spc = "start"
    /\ InitWordsIdle
    /\ InitProgramsIdle

NextClassify ==
    \/ ClassifyStart
    \/ ClassifyText
    \/ ClassifyReturn

SpecClassify == InitClassify /\ [][NextClassify]_vars

\* Everything but the word analysis is idle.
InitOthersIdle ==
    /\ segments = <<>> /\ row = <<>> /\ rows_done = 0 /\ warned = "none"
    /\ lpc = "returned"
    /\ InitCrawlLocals /\ aid = 0 /\ cpc = "idle"
    /\ InitDanmakuLocals /\ txt_file = NoFile /\ dpc = "idle"
    /\ mpc = "none" /\ segmented_danmaku_result = <<>>
    /\ all_danmaku_text_lines = <<>>
    /\ InitClassifyIdle
    /\ InitProgramsIdle

InitPreprocess ==
    /\ InitOthersIdle
    /\ seg_list \in SegLists
    /\ custom_filter_words \in SUBSET FilterTerms
    /\ words_after_stopwords = <<>>
    /\ final_filtered_words = <<>>
    /\ texts_for_sentiment = <<>>
    /\ top_n = 0
    /\ all_words = <<>>
    /\ top_words = <<>>
    /\ all_words_for_freq = <<>>
    /\ top_words_data = <<>>
    /\ frequency_report = <<>>
    /\ wpc = "start"

NextPreprocess ==
    \/ PreprocessStopwords
    \/ PreprocessFilter

SpecPreprocess == InitPreprocess /\ [][NextPreprocess]_vars

InitTopWords ==
    /\ InitOthersIdle
    /\ seg_list = <<>>
    /\ custom_filter_words = {}
    /\ words_after_stopwords = <<>>
    /\ final_filtered_words = <<>>
    /\ texts_for_sentiment \in TopTextLists
    /\ top_n \in 0..MaxTopN
    /\ all_words = <<>>
    /\ top_words = <<>>
    /\ all_words_for_freq = <<>>
    /\ top_words_data = <<>>
    /\ frequency_report = <<>>
    /\ wpc = "start"

NextTopWords ==
    \/ TopStart
    \/ TopExtend
    \/ TopCount

SpecTopWords == InitTopWords /\ [][NextTopWords]_vars

InitPercent ==
    /\ InitOthersIdle
    /\ seg_list = <<>>
    /\ custom_filter_words = {}
    /\ words_after_stopwords = <<>>
    /\ final_filtered_words = <<>>
    /\ texts_for_sentiment = <<>>
    /\ top_n \in 0..MaxTopN
    /\ all_words = <<>>
    /\ top_words = <<>>
    /\ all_words_for_freq \in FreqStreams
    /\ top_words_data = <<>>
    /\ frequency_report = <<>>
    /\ wpc = "start"

NextPercent ==
    \/ FreqTable
    \/ ReportSegment

SpecPercent == InitPercent /\ [][NextPercent]_vars

InitPrograms ==
    /\ segments = <<>> /\ row = <<>> /\ rows_done = 0 /\ warned = "none"
    /\ lpc = "returned"
    /\ InitCrawlLocals /\ aid = 0 /\ cpc = "idle"
    /\ InitDanmakuLocals /\ txt_file = NoFile /\ dpc = "idle"
    /\ mpc = "none" /\ segmented_danmaku_result = <<>>
    /\ all_danmaku_text_lines = <<>>
    /\ InitClassifyIdle
    /\ InitWordsIdle
    /\ all_segmented_danmaku \in SegmentMaps
    /\ program_identifiers \in IdentifierLists
    /\ use_fuzzy \in BOOLEAN
    /\ similarity \in IF use_fuzzy THEN Similarities ELSE {NoSimilarity}
    /\ combined_danmaku = <<>>
    /\ matched_segment_names = {}
    /\ seg_k = 0
    /\ ppc = "start"

NextPrograms ==
    \/ ProgramsStart
    \/ ProgramsSegment
    \/ ProgramsReturn

SpecPrograms == InitPrograms /\ [][NextPrograms]_vars

\* -------------------------------------------------------------------- C1
StartOf(r) == time_to_seconds(r.timeline.start)
EndOf(r) == time_to_seconds(r.timeline.end)

\* The first and the last second of [s, t) and of every window that [s, t)
\* touches: every second of [s, t) shares its window with one of them.
Probes(s, t) ==
    {x \in {s, t - 1}
           \cup {w * WindowSize + d : w \in (s \div WindowSize)..((t - 1) \div WindowSize),
                                      d \in {0, WindowSize - 1}} :
        s <= x /\ x < t}

\* The windows stored in entry e for the range [s, t) of seconds.
WindowsCover(e, s, t) ==
    /\ 0 <= s /\ s < t
    /\ e.from_seg <= e.to_seg
    /\ e.from_seg * WindowSize <= s
    /\ s < (e.from_seg + 1) * WindowSize
    /\ e.to_seg * WindowSize < t
    /\ t <= (e.to_seg + 1) * WindowSize
    /\ \A x \in Probes(s, t) : x \div WindowSize \in e.from_seg..e.to_seg
    /\ \A w \in e.from_seg..e.to_seg :
           \E x \in Probes(s, t) : x \div WindowSize = w

\* C1: when the loop body accepts a row (0 <= start < end), the windows it
\* stores satisfy from <= to, from*360 <= start < (from+1)*360 and
\* to*360 < end <= (to+1)*360; every second of [start, end) lies in a window
\* of [from, to] and every window of [from, to] holds a second of [start, end).
C1_WindowsCoverRange ==
    [][(lpc = "body" /\ lpc' = "rows" /\ RowAccepted(row[1])) =>
          /\ HasKey(segments', row[1].name)
          /\ WindowsCover(Get(segments', row[1].name),
                          StartOf(row[1]), EndOf(row[1]))]_vars

\* A row whose range crosses a window boundary has been stored.
C1_Witness ==
    /\ lpc = "rows"
    /\ rows_done > 0
    /\ row = <<>>
    /\ \E i \in 1..Len(segments) :
           segments[i].from_seg = 0 /\ segments[i].to_seg = 1

\* -------------------------------------------------------------------- C2
NoDuplicateIds(data) ==
    \A i, j \in 1..Len(data) : data[i].id = data[j].id => i = j

Occurrences(data, id) == Cardinality({i \in 1..Len(data) : data[i].id = id})

\* C2 as stated: no id is recorded twice and every id that has occurred in
\* the replies folded so far is recorded exactly once.
C2_EveryIdExactlyOnce ==
    /\ NoDuplicateIds(all_comments_data)
    /\ \A id \in occurred : Occurrences(all_comments_data, id) = 1

\* C2 amended: no id is recorded twice; the recorded comments are, in order,
\* the first reply carrying a non-empty message of each id, top-level or
\* nested; an id that only occurs without a message is not recorded.
C2_RecordedOnceAtFirstText ==
    /\ NoDuplicateIds(all_comments_data)
    /\ all_comments_data = withtext
    /\ fetched_comment_ids = {all_comments_data[i].id : i \in 1..Len(all_comments_data)}
    /\ \A id \in occurred : Occurrences(all_comments_data, id) <= 1

\* Every id has occurred, some more than once, and all are recorded.
C2_Witness ==
    /\ cpc = "done"
    /\ fetches >= 2
    /\ Len(all_comments_data) = MaxId
    /\ occurred = 1..MaxId

\* -------------------------------------------------------------------- C3
Done == cpc = "done"

\* Once the loop is left no page is requested.
DoneIsFinal == Done => (cpc' = "done" /\ fetches' = fetches)

PageFolded == cpc = "fold" /\ todo = 0 /\ subs_left = 0

\* C3 as stated: after a page is folded, the crawl stops whenever the number
\* of collected ids has reached the reported total, whatever the total.
C3_StopsAtAnyTotal ==
    [][/\ (PageFolded /\ Cardinality(fetched_comment_ids) >= cursor.all_count)
            => cpc' = "done"
       /\ DoneIsFinal]_vars

\* C3 amended: after a page is folded, the crawl stops and requests no
\* further page whenever the reported total is positive and the number of
\* collected ids has reached it; a reported total of 0 stops nothing.
C3_StopsAtPositiveTotal ==
    [][/\ (PageFolded /\ cursor.all_count > 0
            /\ Cardinality(fetched_comment_ids) >= cursor.all_count)
            => cpc' = "done"
       /\ DoneIsFinal]_vars

\* The crawl stopped on the total alone: new ids, no end flag.
C3_Witness ==
    /\ Done /\ resp = "page"
    /\ ~cursor.is_end
    /\ new_comments_on_page > 0
    /\ cursor.all_count > 0
    /\ Cardinality(fetched_comment_ids) >= cursor.all_count

\* -------------------------------------------------------------------- C4
\* C4: a folded page n >= 2 without a new id stops the crawl, with n page
\* fetches made and none after; a first page without a new id and without
\* the end flag does not stop it.
C4_NoNewIdStops ==
    [][/\ (PageFolded /\ current_page_num >= 2 /\ new_comments_on_page = 0)
            => (cpc' = "done" /\ fetches' = current_page_num)
       /\ (PageFolded /\ current_page_num = 1 /\ new_comments_on_page = 0
            /\ ~cursor.is_end)
            => cpc' = "sleep"
       /\ DoneIsFinal]_vars

\* Page 1 brought no new id, page 2 brought none either, and the crawl ended
\* after two fetches.
C4_Witness ==
    /\ Done /\ resp = "page"
    /\ fetches = 2
    /\ ~cursor.is_end
    /\ new_comments_on_page = 0
    /\ all_comments_data = <<>>

\* -------------------------------------------------------------------- C5
CeilDiv(a, b) == (a + b - 1) \div b

Max(a, b) == IF a >= b THEN a ELSE b

\* Every cursor so far reported the same total.
OneTotal == total_seen # None /\ total_same

Total == total_seen

\* C5 as stated: when every cursor reports the same total, every reply served
\* is a comment with id and text and no more ids than the total are served,
\* the crawl ends within ceil(total / PageSize) + 1 page fetches.
C5_CeilBound ==
    (Done /\ OneTotal /\ ~junk /\ Cardinality(occurred) <= Total)
        => fetches <= CeilDiv(Total, PageSize) + 1

\* C5 amended: when every cursor reports the same total and no more ids than
\* the total are served with a text, the crawl ends within
\* max(total, 1) + 1 page fetches.
C5_TotalBound ==
    (Done /\ OneTotal /\ Len(withtext) <= Total)
        => fetches <= Max(Total, 1) + 1

\* A crawl with a truthful total that needed total + 1 fetches.
C5_Witness ==
    /\ Done /\ OneTotal
    /\ Len(withtext) = Total
    /\ Total = MaxCount
    /\ fetches = Total + 1

\* -------------------------------------------------------------------- C6
\* C6: a response without replies ends the crawl at once; a page with the
\* end flag has all its replies folded and then ends the crawl; no page is
\* requested afterwards.
C6_EmptyOrEndStops ==
    [][/\ (cpc = "request" /\ resp' = "empty") => cpc' = "done"
       /\ (cpc = "fold" /\ cursor.is_end) =>
              IF todo = 0 /\ subs_left = 0
              THEN cpc' = "done" /\ all_comments_data = withtext
              ELSE /\ cpc' = "fold" /\ cursor' = cursor
                   /\ \/ todo' = todo - 1 /\ subs_left = 0
                      \/ todo' = todo /\ subs_left' = subs_left - 1
       /\ DoneIsFinal]_vars

\* The last page carried the end flag and its new replies are in the result.
C6_Witness ==
    /\ Done /\ resp = "page"
    /\ cursor.is_end
    /\ new_comments_on_page > 0
    /\ Len(comment_texts) = Len(withtext)
    /\ Cardinality(fetched_comment_ids) < cursor.all_count

\* -------------------------------------------------------------------- C7
\* C7: a request that raises ends the crawl at once, no page is requested
\* afterwards, and the texts of all comments recorded before it are returned.
C7_ErrorKeepsCollected ==
    [][/\ (cpc = "request" /\ resp' = "error") =>
              /\ cpc' = "done"
              /\ all_comments_data' = all_comments_data
              /\ all_comments_data' = withtext
              /\ Len(comment_texts') = Len(all_comments_data)
              /\ \A i \in 1..Len(all_comments_data) :
                     comment_texts'[i] = all_comments_data[i].text
       /\ DoneIsFinal]_vars

\* The third request raised and the comments of two pages were returned.
C7_Witness ==
    /\ Done /\ resp = "error"
    /\ fetches = 3
    /\ Len(comment_texts) >= 2


\* -------------------------------------------------------------------- C8
Raised == d_errored' # d_errored

\* C8 as stated: every segment whose retrieval raised is in the per-segment
\* dict with an empty list.
C8_ErroredSegmentHasEmptyEntry ==
    \A n \in d_errored :
        /\ HasKey(segmented_danmaku_data, n)
        /\ Get(segmented_danmaku_data, n).texts = <<>>

\* C8 amended: a retrieval that raises is caught, the segment gets no entry in
\* the per-segment dict and adds no text, the loop goes on with the next
\* segment, and at the return the loop has visited every segment.
C8_ErrorSkipsSegmentOnly ==
    [][/\ Raised =>
              /\ segmented_danmaku_data' = segmented_danmaku_data
              /\ all_danmaku_texts_combined' = all_danmaku_texts_combined
              /\ seg_i' = seg_i + 1
              /\ dpc' = "lookup"
       /\ \A n \in d_errored' : ~HasKey(segmented_danmaku_data', n)
       /\ (dpc' = "returned" /\ segments # <<>>) => d_visited' = Keys(segments)]_vars

\* The first segment's retrieval raised and the second segment has its texts.
C8_Witness ==
    /\ dpc = "returned"
    /\ Len(segments) = 2
    /\ d_errored = {segments[1].name}
    /\ HasKey(d_ret, segments[2].name)
    /\ Get(d_ret, segments[2].name).texts # <<>>

\* -------------------------------------------------------------------- C9
\* C9: a window-count or retrieval request is never made right after another
\* one: a delay has run since the request before it.
C9_DelayBetweenRequests ==
    [][d_requests' > d_requests => d_last # "request"]_vars

\* ------------------------------------------------------------------- C10
\* C10: main never ends by an exception of the danmaku stage.
C10_MainNeverRaises == mpc # "raised"

\* ------------------------------------------------------------------- C11
\* C11: a bad row never aborts the batch: whatever the row is, the loop body
\* goes on with the remaining rows, and a row whose time range is accepted
\* has its entry in the map.
C11_BadRowNeverAborts ==
    [][lpc = "body" =>
          /\ lpc' = "rows"
          /\ RowAccepted(row[1]) => HasKey(segments', row[1].name)]_vars

\* ------------------------------------------------------------------- C12
\* The row whose time range the loop body resolves at lines 202-221.
Resolving ==
    /\ lpc = "body"
    /\ row[1].timeline.match
    /\ PageCellOutcome(row[1].pcell) # "OverflowError"

\* C12: a row that reaches the resolution of its time range is rejected
\* exactly when end <= start: it then leaves the map as it is, the reason is
\* recorded and the loop goes on; otherwise the row is stored with its
\* windows and the entries of the other names stay as they are. The range
\* 0-1 resolves to windows (0, 0), 359-361 to (0, 1), 720-720 is rejected.
C12_RejectedIffEndNotAfterStart ==
    [][Resolving =>
          LET r == row[1]
              s == StartOf(r)
              t == EndOf(r)
          IN  /\ lpc' = "rows"
              /\ t <= s => segments' = segments /\ warned' = "not_after"
              /\ t > s =>
                    /\ warned' = "none"
                    /\ HasKey(segments', r.name)
                    /\ Get(segments', r.name).from_seg = s \div WindowSize
                    /\ Get(segments', r.name).to_seg = (t - 1) \div WindowSize
                    /\ Keys(segments') = Keys(segments) \cup {r.name}
                    /\ \A n \in Keys(segments) \ {r.name} :
                           Get(segments', n) = Get(segments, n)
              /\ (s = 0 /\ t = 1) =>
                    /\ Get(segments', r.name).from_seg = 0
                    /\ Get(segments', r.name).to_seg = 0
              /\ (s = 359 /\ t = 361) =>
                    /\ Get(segments', r.name).from_seg = 0
                    /\ Get(segments', r.name).to_seg = 1
              /\ (s = 720 /\ t = 720) => segments' = segments]_vars

\* The second row was rejected for its time range and the entry of the
\* first row, with windows (0, 1), is still in the map.
C12_Witness ==
    /\ lpc = "rows"
    /\ rows_done = 2
    /\ warned = "not_after"
    /\ Len(segments) = 1
    /\ segments[1].from_seg = 0 /\ segments[1].to_seg = 1

\* ------------------------------------------------------------------- C13
\* C13: every page request but the first is preceded by a delay that was
\* executed after the previous page was folded and checked: the delay runs
\* only once the page's replies are all iterated, and a request after page 1
\* is made only with the delay done since the last request.
C13_DelayBeforeNextPage ==
    [][/\ fetches' > fetches => (fetches = 0 \/ c_paced)
       /\ (c_paced' /\ ~c_paced) =>
              /\ cpc = "sleep" /\ todo = 0 /\ subs_left = 0
              /\ fetches = current_page_num - 1
              /\ cpc' = "request"]_vars

\* The second page was requested, after the delay.
C13_Witness ==
    /\ fetches = 2
    /\ current_page_num = 2
    /\ cpc = "fold"
    /\ ~c_paced

\* ------------------------------------------------------------------- C14
\* C14: without an aid the crawl makes no page request, not even for page 1,
\* records nothing, and what it returns is the empty list.
C14_NoAidNoRequest ==
    aid = 0 =>
        /\ cpc \in {"start", "done"}
        /\ fetches = 0
        /\ resp = "none"
        /\ all_comments_data = <<>>
        /\ comment_texts = <<>>

\* The crawl has returned for a content without aid.
C14_Witness ==
    /\ aid = 0
    /\ cpc = "done"
    /\ fetches = 0
    /\ comment_texts = <<>>

\* ------------------------------------------------------------------- C15
\* The page index of segment cfg has no cid in the content info: it lies
\* outside the page table, or the content has no page table and the index
\* is not 0 or there is no top-level cid.
LookupFails(cfg, info) ==
    IF info.npages > 0 THEN cfg.page_index >= info.npages
    ELSE cfg.page_index # 0 \/ info.topcid = 0

\* C15: when the lookup fails for a segment, the loop goes on with the next
\* segment without any request; the per-segment dict, the combined list, the
\* content info, the file and the input stay as they are, so the other
\* segments are processed as without it; a skipped segment never gets an
\* entry and none of its retrievals is ever made.
C15_FailedLookupSkipsSegmentOnly ==
    [][/\ (dpc = "lookup" /\ seg_i <= Len(segments)
             /\ LookupFails(Segment, d_info)) =>
              /\ dpc' = "lookup"
              /\ seg_i' = seg_i + 1
              /\ d_requests' = d_requests
              /\ d_last' = d_last
              /\ d_req' = d_req
              /\ segmented_danmaku_data' = segmented_danmaku_data
              /\ all_danmaku_texts_combined' = all_danmaku_texts_combined
              /\ d_info' = d_info
              /\ txt_file' = txt_file
              /\ segments' = segments
              /\ Segment.name \in d_skipped'
       /\ \A n \in d_skipped' :
              /\ ~HasKey(segmented_danmaku_data', n)
              /\ n \notin d_errored']_vars

\* The first segment was skipped by the lookup and the second was retrieved
\* and is the only entry of the returned dict.
C15_Witness ==
    /\ dpc = "returned"
    /\ Len(segments) = 2
    /\ d_skipped = {segments[1].name}
    /\ d_requests = 1
    /\ Keys(d_ret) = {segments[2].name}

\* ------------------------------------------------------------------- C16
\* The record lists of dict data, concatenated in the order of its entries.
RECURSIVE Flatten(_)
Flatten(data) ==
    IF data = <<>> THEN <<>>
    ELSE Head(data).texts \o Flatten(Tail(data))

\* The record lists of the first k input segments that have an entry in
\* data, concatenated in the order of the input.
RECURSIVE FlattenByInput(_, _, _)
FlattenByInput(cfgs, data, k) ==
    IF k = 0 THEN <<>>
    ELSE FlattenByInput(cfgs, data, k - 1)
         \o (IF HasKey(data, cfgs[k].name) THEN Get(data, cfgs[k].name).texts
             ELSE <<>>)

\* The names of the entries of data, in order, are taken from the names of
\* cfgs in their order.
InInputOrder(data, cfgs) ==
    \A i, j \in 1..Len(data) :
        i < j => \E a, b \in 1..Len(cfgs) :
                     a < b /\ cfgs[a].name = data[i].name
                           /\ cfgs[b].name = data[j].name

\* C16: at every point the flattened list is the concatenation of the
\* per-segment lists, taken in the order of the dict, which is the order of
\* the input map; the file, when this run wrote it, holds the same list.
C16_FlattenedIsConcatenation ==
    /\ all_danmaku_texts_combined = Flatten(segmented_danmaku_data)
    /\ all_danmaku_texts_combined
           = FlattenByInput(segments, segmented_danmaku_data, Len(segments))
    /\ InInputOrder(segmented_danmaku_data, segments)
    /\ (dpc = "returned" /\ txt_file \notin {NoFile, StaleFile}) =>
           txt_file.lines = all_danmaku_texts_combined

\* Two segments were retrieved, each with a list of its own, and the two
\* lists are in the flattened list in the order of the input.
C16_Witness ==
    /\ dpc = "returned"
    /\ Len(segments) = 2
    /\ Len(d_ret) = 2
    /\ d_ret[1].name = segments[1].name
    /\ d_ret[1].texts = <<"a", " b">>
    /\ d_ret[2].texts = <<" b">>
    /\ all_danmaku_texts_combined = <<"a", " b", " b">>
    /\ txt_file.lines = all_danmaku_texts_combined

\* ------------------------------------------------------------------- C17
\* C17: a segment whose from_seg or to_seg is None and whose cid was found
\* is not skipped: the window count of its track is asked for; a count
\* total > 0 is followed by one retrieval of windows 0 to total - 1 of that
\* track, whose texts become the entry of the segment; a count of 0 leaves
\* no window to retrieve and the segment gets an empty entry.
C17_UndefinedRangeFetchesAllWindows ==
    [][/\ (dpc = "lookup" /\ seg_i <= Len(segments)
             /\ (Segment.from_seg = None \/ Segment.to_seg = None)
             /\ ~LookupFails(Segment, d_info)) =>
              /\ dpc' = "view"
              /\ seg_i' = seg_i
              /\ Segment.name \notin d_skipped'
       /\ (dpc = "view" /\ d_total' # None /\ d_total' > 0) =>
              /\ dpc' = "get"
              /\ d_cid' = d_cid
              /\ d_from' = 0
              /\ d_to' = d_total' - 1
       /\ (dpc = "view" /\ d_total' = 0) =>
              /\ dpc' = "sleep"
              /\ HasKey(segmented_danmaku_data', Segment.name)
              /\ Get(segmented_danmaku_data', Segment.name).texts = <<>>
       /\ (dpc = "get" /\ d_total # None) =>
              /\ d_requests' = d_requests + 1
              /\ d_req' = <<d_cid, 0, d_total - 1>>
              /\ dpc' = "sleep" => HasKey(segmented_danmaku_data', Segment.name)]_vars

\* A segment without window range had all the windows of its track
\* retrieved, 0 to the last one, and its texts stored.
C17_Witness ==
    /\ dpc = "sleep"
    /\ Segment.from_seg = None
    /\ d_total = MaxTotal
    /\ d_req = <<d_cid, 0, MaxTotal - 1>>
    /\ HasKey(segmented_danmaku_data, Segment.name)
    /\ Get(segmented_danmaku_data, Segment.name).texts # <<>>

\* ------------------------------------------------------------------- C18
\* The loop is about to classify a text that is not blank.
Classifying ==
    /\ spc = "loop"
    /\ text_i <= Len(texts_list)
    /\ texts_list[text_i] \notin {"", " "}

\* The order of the buckets.
Rank(bucket) ==
    CASE bucket = "negative" -> 0
      [] bucket = "neutral" -> 1
      [] bucket = "positive" -> 2

\* Only bucket b grows, by text t.
OnlyGrows(b, t) ==
    /\ categorized_texts'[b] = Append(categorized_texts[b], t)
    /\ \A o \in {"positive", "neutral", "negative"} \ {b} :
           categorized_texts'[o] = categorized_texts[o]

\* C18: a text with a score above 0.65 goes to the positive bucket, one
\* with a score below 0.35 to the negative bucket, every other one, 0.65
\* and 0.35 included, to the neutral bucket; the bucket never falls as the
\* score rises. Scores are in hundredths.
C18_FixedExclusiveThresholds ==
    [][/\ (Classifying /\ SnowScore(texts_list[text_i]) # None) =>
              LET t == texts_list[text_i]
                  score == SnowScore(t)
              IN  /\ score > 65 => OnlyGrows("positive", t)
                  /\ score < 35 => OnlyGrows("negative", t)
                  /\ (35 <= score /\ score <= 65) => OnlyGrows("neutral", t)
       /\ Bucket(65) = "neutral" /\ Bucket(35) = "neutral"
       /\ \A a \in 0..99 : Rank(Bucket(a)) <= Rank(Bucket(a + 1))]_vars

\* Texts with the scores 0.65, 0.66 and 0.35 were classified.
C18_Witness ==
    /\ spc = "returned"
    /\ texts_list = <<"t65", "t66", "t35">>
    /\ categorized_texts.neutral = <<"t65", "t35">>
    /\ categorized_texts.positive = <<"t66">>

\* ------------------------------------------------------------------- C19
\* The texts the loop has been through.
Iterated == SubSeq(texts_list, 1, text_i - 1)

Elems(seq) == {seq[i] : i \in 1..Len(seq)}

\* The elements of seq that are in S, in the order of seq.
RECURSIVE Keep(_, _)
Keep(seq, S) ==
    IF seq = <<>> THEN <<>>
    ELSE IF Head(seq) \in S THEN <<Head(seq)>> \o Keep(Tail(seq), S)
    ELSE Keep(Tail(seq), S)

BucketNames == {"positive", "neutral", "negative"}

\* C19: at every point of the loop, each text iterated that is not blank is
\* in exactly one bucket, once for each of its occurrences, blank texts are
\* in none, the sizes of the buckets sum to the number of non-blank texts
\* iterated, and each bucket holds its texts in the order of the input.
C19_BucketsPartitionInput ==
    /\ \A b \in BucketNames :
           /\ categorized_texts[b] = Keep(Iterated, Elems(categorized_texts[b]))
           /\ Elems(categorized_texts[b]) \cap {"", " "} = {}
    /\ \A b, c \in BucketNames :
           b # c => Elems(categorized_texts[b]) \cap Elems(categorized_texts[c]) = {}
    /\ Len(categorized_texts.positive) + Len(categorized_texts.neutral)
           + Len(categorized_texts.negative)
         = Cardinality({i \in 1..Len(Iterated) : Iterated[i] \notin {"", " "}})
    /\ \A i \in 1..Len(Iterated) :
           Iterated[i] \notin {"", " "} =>
               \E b \in BucketNames : Iterated[i] \in Elems(categorized_texts[b])

\* A list with a whitespace-only text between two texts of different
\* buckets was classified.
C19_Witness ==
    /\ spc = "returned"
    /\ Len(texts_list) = MaxTexts
    /\ texts_list[2] = " "
    /\ Len(categorized_texts.positive) = 1
    /\ Len(categorized_texts.negative) = 1

\* ------------------------------------------------------------------- C20
\* C20: when the scorer raises on a text, the text is appended to the
\* neutral bucket, the other buckets stay as they are and the loop goes on
\* with the next text; the function only returns with every text iterated.
C20_ScorerFailureIsNeutral ==
    [][/\ (spc = "loop" /\ text_i <= Len(texts_list)
             /\ texts_list[text_i] = "bad") =>
              /\ OnlyGrows("neutral", "bad")
              /\ text_i' = text_i + 1
              /\ spc' = "loop"
       /\ (spc = "loop" /\ spc' = "returned") => text_i > Len(texts_list)
       /\ spc = "returned" => spc' = "returned"]_vars

\* The scorer raised on the first text and the second was still classified.
C20_Witness ==
    /\ spc = "returned"
    /\ texts_list = <<"bad", "t66">>
    /\ categorized_texts.neutral = <<"bad">>
    /\ categorized_texts.positive = <<"t66">>

\* ------------------------------------------------------------------- C23
\* out is seq with some of its elements left out.
RECURSIVE IsSubsequence(_, _)
IsSubsequence(out, seq) ==
    IF out = <<>> THEN TRUE
    ELSE IF seq = <<>> THEN FALSE
    ELSE IF Head(out) = Head(seq) THEN IsSubsequence(Tail(out), Tail(seq))
    ELSE IsSubsequence(out, Tail(seq))

\* Two strings are equal but for the case of their letters.
SameButCase(a, b) ==
    /\ Len(a) = Len(b)
    /\ \A i \in 1..Len(a) :
           \/ a[i] = b[i]
           \/ {a[i], b[i]} \in {{"a", "A"}, {"b", "B"}}

\* Some part of word is term but for the case of its letters.
ContainsButCase(term, word) ==
    \E k \in 0..(Len(word) - Len(term)) :
        SameButCase(SubSeq(word, k + 1, k + Len(term)), term)

\* C23: the returned list is the segmenter's output with some tokens left
\* out and the order kept; no token of it equals a stopword but for case,
\* none has length <= 1; with filter terms given, none contains a term but
\* for case.
C23_TokensFiltered ==
    wpc = "returned" =>
        /\ IsSubsequence(final_filtered_words, seg_list)
        /\ \A i \in 1..Len(final_filtered_words) :
               LET word == final_filtered_words[i]
               IN  /\ \A sw \in STOPWORDS : ~SameButCase(word, sw)
                   /\ Len(word) > 1
                   /\ \A term \in custom_filter_words :
                          ~ContainsButCase(term, word)

\* A word was kept while the stopword in upper case before it and the word
\* holding a filter term in another case after it were dropped.
C23_Witness ==
    /\ wpc = "returned"
    /\ seg_list = <<<<"A", "a">>, <<"a", "d">>, <<"a", "B">>>>
    /\ custom_filter_words = {<<"B">>}
    /\ words_after_stopwords = <<<<"a", "d">>, <<"a", "B">>>>
    /\ final_filtered_words = <<<<"a", "d">>>>

\* ------------------------------------------------------------------- C21
\* The tokens of all texts, in order, that pass the stopword and length
\* filter.
RECURSIVE TokenStream(_)
TokenStream(texts) ==
    IF texts = <<>> THEN <<>>
    ELSE LET first == texts[1]
         IN  [i \in 1..Len(first) |-> first[i]]
             \o TokenStream(SubSeq(texts, 2, Len(texts)))

KeptStream(texts) ==
    LET stream == TokenStream(texts)
        kept(i) == Len(stream[i]) > 1 /\ Lower(stream[i]) \notin STOPWORDS
                   /\ \E j \in 1..Len(stream[i]) : stream[i][j] # " "
        F[i \in 0..Len(stream)] ==
            IF i = 0 THEN <<>>
            ELSE IF kept(i) THEN Append(F[i - 1], stream[i]) ELSE F[i - 1]
    IN  F[Len(stream)]

OccurrencesIn(stream, word) == Cardinality({i \in 1..Len(stream) : stream[i] = word})

FirstIn(stream, word) == CHOOSE i \in 1..Len(stream) :
    stream[i] = word /\ \A j \in 1..(i - 1) : stream[j] # word

\* C21: get_top_n_words returns at most n pairs with distinct words, each
\* with the exact number of occurrences of its word in the token stream,
\* in non-increasing order of count, words of equal count in the order of
\* their first occurrence; they are the n first of that order over all the
\* words; an empty list of texts or an empty token stream gives the empty
\* list.
C21_TopWordsOrdered ==
    wpc = "returned" =>
        LET stream == KeptStream(texts_for_sentiment)
            words == {stream[i] : i \in 1..Len(stream)}
            k == Len(top_words)
            Before(v, w) ==
                \/ OccurrencesIn(stream, v) > OccurrencesIn(stream, w)
                \/ /\ OccurrencesIn(stream, v) = OccurrencesIn(stream, w)
                   /\ FirstIn(stream, v) < FirstIn(stream, w)
        IN  /\ k <= top_n
            /\ k = IF Cardinality(words) < top_n THEN Cardinality(words) ELSE top_n
            /\ \A i \in 1..k :
                   /\ top_words[i][1] \in words
                   /\ top_words[i][2] = OccurrencesIn(stream, top_words[i][1])
            /\ \A i, j \in 1..k : i < j => Before(top_words[i][1], top_words[j][1])
            /\ \A i \in 1..k : \A w \in words :
                   Before(w, top_words[i][1]) => \E j \in 1..k : top_words[j][1] = w
            /\ (texts_for_sentiment = <<>> \/ stream = <<>>) => top_words = <<>>

\* Two words of count 2 returned in the order of their first occurrence
\* in the stream of both texts.
C21_Witness ==
    /\ wpc = "returned"
    /\ top_n = 2
    /\ texts_for_sentiment = << <<<<"b", "c">>, <<"a", "b">>>>,
                                <<<<"a", "b">>, <<"b", "c">>>> >>
    /\ top_words = << <<<<"b", "c">>, 2>>, <<<<"a", "b">>, 2>> >>

\* ------------------------------------------------------------------- C22
\* x <= y for two fixed-point numbers.
Leq(x, y) ==
    \/ x = y
    \/ \E i \in 1..Limbs : x[i] < y[i] /\ \A j \in (i + 1)..Limbs : x[j] = y[j]

\* 2^-45, above the error of the two roundings of a percentage.
FloatError == OneAt(FracBits - 45 + 1)

\* The counted vocabulary of a stream and the number of occurrences of all
\* its words.
Vocabulary(stream) == {stream[i] : i \in 1..Len(stream)}

\* The sum of a field over the rows of a table.
RECURSIVE SumOf(_, _)
SumOf(rows, field) ==
    IF rows = <<>> THEN 0 ELSE rows[1][field] + SumOf(Tail(rows), field)

RECURSIVE SumOfPercentages(_)
SumOfPercentages(rows) ==
    IF rows = <<>> THEN FromInt(0)
    ELSE Add(rows[1].percentage, SumOfPercentages(Tail(rows)))

\* The rows have the ranks 1..k, the exact counts of their words, and k is
\* the least of limit and the size of the vocabulary.
RanksAndCounts(rows, limit) ==
    LET stream == all_words_for_freq
        vocabulary == Vocabulary(stream)
    IN  /\ Len(rows) = IF Cardinality(vocabulary) < limit
                       THEN Cardinality(vocabulary) ELSE limit
        /\ \A i \in 1..Len(rows) :
               /\ rows[i].rank = i
               /\ rows[i].word \in vocabulary
               /\ rows[i].count = OccurrencesIn(stream, rows[i].word)
               /\ \A j \in 1..Len(rows) : rows[j].word = rows[i].word => j = i
        /\ SumOf(rows, "count") = Len(stream) <=> Cardinality(vocabulary) <= limit

\* Every percentage of the table is within 2^-45 of 100 * count / total,
\* the total taken over the whole stream.
TableWithinFloatError ==
    \A i \in 1..Len(top_words_data) :
        LET scaled == TimesInt(top_words_data[i].percentage, Len(all_words_for_freq))
            exact == FromInt(100 * top_words_data[i].count)
            slack == TimesInt(FloatError, Len(all_words_for_freq))
        IN  Leq(scaled, Add(exact, slack)) /\ Leq(exact, Add(scaled, slack))

\* Every percentage of the report, in hundredths, is within half a
\* hundredth of 100 * count / total.
ReportWithinHalfHundredth ==
    \A i \in 1..Len(frequency_report) :
        LET total == Len(all_words_for_freq)
            diff == frequency_report[i].percentage * total
                    - 10000 * frequency_report[i].count
        IN  2 * diff <= total /\ -2 * diff <= total

\* C22, as stated: the rows have ranks 1..k and exact counts, each
\* percentage is 100 * count / total over the whole vocabulary, and the
\* percentages of the rows sum to at most 100, and to 100 only when no
\* word is cut off.
C22_PercentagesSumToAtMost100 ==
    /\ wpc = "returned" =>
           /\ RanksAndCounts(top_words_data, top_n)
           /\ TableWithinFloatError
           /\ Leq(SumOfPercentages(top_words_data), FromInt(100))
           /\ SumOfPercentages(top_words_data) = FromInt(100) =>
                  Cardinality(Vocabulary(all_words_for_freq)) <= top_n
    /\ wpc = "reported" =>
           /\ RanksAndCounts(frequency_report, ReportN)
           /\ ReportWithinHalfHundredth
           /\ SumOf(frequency_report, "percentage") <= 10000
           /\ SumOf(frequency_report, "percentage") = 10000 =>
                  Cardinality(Vocabulary(all_words_for_freq)) <= ReportN

\* C22, amended: the rows have ranks 1..k and exact counts, which sum to
\* the total exactly when no word is cut off; each percentage is
\* 100 * count / total over the whole vocabulary, rounded: within 2^-45 in
\* the returned table, within half a hundredth in the report; so the
\* percentages of k rows sum to at most 100 and k times that error; one
\* word counted 5 times has rank 1, count 5 and percentage 100.
C22_PercentagesWithinRounding ==
    /\ wpc = "returned" =>
           /\ RanksAndCounts(top_words_data, top_n)
           /\ TableWithinFloatError
           /\ Leq(SumOfPercentages(top_words_data),
                  Add(FromInt(100), TimesInt(FloatError, Len(top_words_data))))
           /\ (Len(all_words_for_freq) = 5 /\ Cardinality(Vocabulary(all_words_for_freq)) = 1
                   /\ top_n >= 1) =>
                  top_words_data = <<[rank |-> 1, word |-> all_words_for_freq[1],
                                      count |-> 5, percentage |-> FromInt(100)]>>
    /\ wpc = "reported" =>
           /\ RanksAndCounts(frequency_report, ReportN)
           /\ ReportWithinHalfHundredth
           /\ 2 * SumOf(frequency_report, "percentage")
                  <= 20000 + Len(frequency_report)
           /\ (Len(all_words_for_freq) = 5 /\ Cardinality(Vocabulary(all_words_for_freq)) = 1) =>
                  frequency_report = <<[rank |-> 1, word |-> all_words_for_freq[1],
                                        count |-> 5, percentage |-> 10000]>>

\* The report of a segment with the counts 4, 1, 1: 66.67, 16.67, 16.67.
C22_Witness ==
    /\ wpc = "reported"
    /\ Len(all_words_for_freq) = 6
    /\ Len(frequency_report) = 3
    /\ frequency_report[1].count = 4
    /\ frequency_report[1].percentage = 6667
    /\ frequency_report[2].percentage = 1667
    /\ frequency_report[3].percentage = 1667

\* ------------------------------------------------------------------- C24
\* The provider requests that were issued and have not returned: main's
\* get_info, the fetcher's get_info, get_danmaku_view and get_danmakus, and
\* the crawl's get_comments.
InFlight ==
    (IF mpc = "video_info" THEN 1 ELSE 0)
    + (IF dpc \in {"get_info", "view", "get"} THEN 1 ELSE 0)
    + (IF cpc = "request" THEN 1 ELSE 0)

\* The fetcher, or the crawl, was called and has not returned.
FetchRunning == dpc \notin {"idle", "returned", "raised"}

CrawlRunning == cpc \notin {"idle", "done"}

\* C24: at most one provider request is in flight, the danmaku fetch and
\* the comment crawl never run at the same time, a step completes at most
\* one segment request or page request, and the crawl starts only when
\* the danmaku fetch has returned or was not called.
C24_OneRequestAtATime ==
    /\ [](InFlight <= 1 /\ ~(FetchRunning /\ CrawlRunning))
    /\ [][/\ (d_requests' - d_requests) + (fetches' - fetches) \in {0, 1}
          /\ (~CrawlRunning /\ CrawlRunning') => dpc \in {"idle", "returned"}
          /\ (~FetchRunning /\ FetchRunning') => cpc = "idle"]_vars

\* A page request of the crawl is in flight after a fetch that made two
\* segment requests.
C24_Witness ==
    /\ cpc = "request"
    /\ current_page_num = 2
    /\ dpc = "returned"
    /\ d_requests = 2

\* ------------------------------------------------------------------- C25
\* main is at or past the credential call, or a provider call was made.
NetworkAccess ==
    \/ mpc \notin {"load", "exit"}
    \/ dpc # "idle"
    \/ cpc # "idle"
    \/ d_requests > 0
    \/ fetches > 0

C26_FetchesBounded ==
    /\ [](fetches <= MaxId + 2)
    /\ [][cpc = "done" => fetches' = fetches /\ cpc' = "done"]_vars

\* The crawl has returned after MaxId + 2 fetches, with no page that
\* signalled the end and no total reported.
C26_Witness ==
    /\ cpc = "done"
    /\ resp = "page"
    /\ fetches = MaxId + 2
    /\ ~cursor.is_end
    /\ total_seen = 0
    /\ total_same

\* ------------------------------------------------------------------- C27
\* The folded page gives no reason to stop: no end flag, a positive total
\* above the number of collected ids, and, after page 1, a newly collected
\* id.
NoReasonToStop ==
    /\ ~cursor.is_end
    /\ cursor.all_count > 0
    /\ Cardinality(fetched_comment_ids) < cursor.all_count
    /\ (current_page_num = 1 \/ new_comments_on_page >= 1)

NoRecordAtAll ==
    \A i \in 1..Len(segmented_danmaku_data) : segmented_danmaku_data[i].texts = <<>>

\* The segments the loop visited, found a cid for, and retrieved without
\* an exception.
Succeeded == d_visited \ (d_skipped \cup d_errored)

\* C28: the fetcher returns the empty map when no segment was stored with
\* a record, whatever was fetched; otherwise the map has one entry for
\* each segment that was looked up and retrieved, and no other, and every
\* record in it is a text that is not blank.
C28_EmptyMapOrSucceededSegments ==
    (dpc = "returned" /\ segments # <<>>) =>
        IF NoRecordAtAll
        THEN d_ret = <<>>
        ELSE /\ Keys(d_ret) = Succeeded
             /\ \A i, j \in 1..Len(d_ret) : d_ret[i].name = d_ret[j].name => i = j
             /\ \A i \in 1..Len(d_ret) : \A k \in 1..Len(d_ret[i].texts) :
                    Strip(d_ret[i].texts[k]) # ""

\* Both segments were retrieved, with blank records only, and the empty
\* map was returned.
C28_Witness ==
    /\ dpc = "returned"
    /\ Len(segmented_danmaku_data) = 2
    /\ d_req # <<>>
    /\ d_errored = {}
    /\ d_skipped = {}
    /\ d_ret = <<>>

\* ------------------------------------------------------------------- C29
\* C29: when the overall analysis has read its lines, they are the
\* flattened record list that the fetch of this run returned: as many
\* entries, the same entries, in the same order.
C29_OverallAnalysisOnThisRunsRecords ==
    all_danmaku_text_lines # <<>> =>
        all_danmaku_text_lines = Flatten(segmented_danmaku_result)

\* ------------------------------------------------------------------- C30
\* Some identifier matches the name: it is part of the name but for case,
\* or, with fuzzy matching, its score reaches the threshold.
MatchedByAny(name) ==
    \E i \in 1..Len(program_identifiers) :
        IF use_fuzzy
        THEN similarity[<<program_identifiers[i], name>>] >= FuzzyThreshold
        ELSE ContainsButCase(program_identifiers[i], name)

\* The record lists of the matched ones among the first k entries of the
\* map, one after the other.
RECURSIVE MatchedRecords(_)
MatchedRecords(k) ==
    IF k = 0 THEN <<>>
    ELSE MatchedRecords(k - 1)
         \o (IF MatchedByAny(all_segmented_danmaku[k].name)
             THEN all_segmented_danmaku[k].texts ELSE <<>>)

\* C30: the result is the concatenation, in the order of the segment map,
\* of the record lists of the segments that some identifier matches, each
\* list once however many identifiers match; it is empty for an empty map
\* or an empty identifier list.
C30_MatchedSegmentsOnceInOrder ==
    ppc = "returned" =>
        /\ combined_danmaku = MatchedRecords(Len(all_segmented_danmaku))
        /\ (all_segmented_danmaku = <<>> \/ program_identifiers = <<>>) =>
               combined_danmaku = <<>>

\* The second segment of the map is matched by both identifiers, the first
\* by the second identifier only; each list is in the result once.
C30_Witness ==
    /\ ppc = "returned"
    /\ ~use_fuzzy
    /\ program_identifiers = << <<"a">>, <<"B">> >>
    /\ all_segmented_danmaku = <<[name |-> <<"b", "c">>, texts |-> <<"a">>],
                                 [name |-> <<"A", "b">>, texts |-> <<"a", " b">>]>>
    /\ combined_danmaku = <<"a", "a", " b">>

====
